---- MODULE Spec2Model ----
(***************************************************************************)
(* A model of the WebSocket client runtime: the client facade              *)
(* (WebSocketClient) with its connection manager, native adapter,          *)
(* heartbeat manager, reconnect manager and message queue, and the         *)
(* reconnect manager on its own.                                           *)
(*                                                                         *)
(* Scheduling.  JavaScript runs one task at a time.  A step of the model   *)
(* is one task run from its start to its next suspension (await): a call   *)
(* of the consumer, a socket event, a timer callback, or the continuation   *)
(* of a suspended connect().  Continuations are microtasks: socket events  *)
(* and timers wait until no continuation is runnable, while calls of the   *)
(* consumer (made from its listeners or its own continuations) may come    *)
(* between any two steps.  A promise chain that settles without further    *)
(* suspension (handleReconnect, reconnect, the tail of connect) is run to  *)
(* its end inside the step that settles it.  The one listener of the       *)
(* consumer that runs inside a step is a state-change listener that sends  *)
(* a message when the state becomes connected (cfg.listener).              *)
(*                                                                         *)
(* ev is the log of the last step: the events emitted and the calls        *)
(* returned, in order.  wire is what the adapter accepted for its socket.  *)
(* settled, openSince, flushed, flushRun, offline and cycle are history    *)
(* variables:                                                              *)
(* nothing in the program reads them.                                      *)
(***************************************************************************)
EXTENDS Integers, Sequences, FiniteSets, TLC

(* ---------------------------------------------------------------------- *)
(* Bounds of the model                                                     *)
(* ---------------------------------------------------------------------- *)
MaxSockets == 2     \* sockets the transport creates in one run
MaxAdapters == 1    \* adapters AdapterFactory.create makes in one run
MaxFrames == 3      \* suspended calls (connect, handleReconnect, reconnect)
MaxCalls == 3       \* connect()/disconnect()/destroy() calls of the consumer
MaxSends == 2       \* send() calls of the consumer
MaxFlushTurns == 4  \* turns of the loop of one MessageQueue.flush
MaxNow == 1         \* readings of the clock (Date.now) that differ

VARIABLES
  state,          \* ConnectionManager.state
  isDestroyed,    \* WebSocketClient.isDestroyed
  adapter,        \* WebSocketClient.adapter: index into adapters, 0 = null
  adapters,       \* the NativeAdapter objects created so far
  sockets,        \* the WebSocket objects created so far
  frames,         \* suspended async calls
  pingInterval,   \* HeartbeatManager.pingInterval is armed
  pongTimeout,    \* HeartbeatManager.pongTimeout is armed
  attempts,       \* ReconnectManager.attempts
  reconnectTimer, \* ReconnectManager.reconnectTimer: frame of the armed timer, 0 = null
  queue,          \* MessageQueue.queue
  isSorted,       \* MessageQueue.isSorted
  now,            \* the clock
  wire,           \* payloads the adapter accepted, in order
  ev,             \* what the last step emitted, in order
  calls,          \* consumer calls made
  sends,          \* consumer sends made
  cfg,            \* the configuration the client was built with
  settled,        \* history: disconnect() was called and connect() not since
  openSince,      \* history: open was emitted since connect() last began to connect
  flushed,        \* history: what the last flushQueue handed to the adapter
  flushRun,       \* history: the payloads in the queue when the last flushQueue began, and those it passed to send()
  offline,        \* history: the payloads send() queued because the client was not connected
  cycle,          \* history: the reconnect() cycle of the stand-alone manager
  timers          \* time left on the heartbeat timers; history: age of the oldest probe
                  \* that is neither answered nor timed out (-1: none), and the socket
                  \* the last heartbeat timeout closed while its close event is due
  ,mq             \* the flush() of the stand-alone MessageQueue that is suspended, and
                  \* history: the items in the order in which they were enqueued, and
                  \* the number of sendFn calls of that flush that completed
  ,ack            \* AckManager: sendFn, pendingMessages, the timers armed; history: the
                  \* callbacks invoked and the sendFn calls made for each message
  ,em             \* EventEmitter on its own: the implementation, the listener Set of
                  \* one event, maxListeners, warnedEvents; history: the warnings
                  \* made and the invocations of each once registration
  ,rt             \* MessageRouter on its own: routes, subscriptions, defaultHandler,
                  \* the suspended dispatch calls; history: the invocations of each route
  ,dd             \* MessageDeduplicator on its own: the clock, the cleanup timer,
                  \* processedMessages; history: when each key was marked last
  ,bs             \* BatchSender on its own: buffer, bufferBytes, flushTimer; history:
                  \* the sendFn calls each message was in
  ,mw             \* MiddlewareManager on its own: sendMiddlewares, receiveMiddlewares
                  \* and the executeChain call that is suspended; history: what the
                  \* middlewares and the final action of that call did, in order
  ,rpc            \* RpcManager: pendingRequests, the timers armed; history: the
                  \* resolve/reject calls made on each completion

vars == <<state, isDestroyed, adapter, adapters, sockets, frames, pingInterval,
          pongTimeout, attempts, reconnectTimer, queue, isSorted, now, wire, ev,
          calls, sends, cfg, settled, openSince, flushed, flushRun, offline, cycle, timers, mq, ack, rpc, em, rt, dd, bs, mw>>

ConnectionState == {"connecting", "connected", "disconnecting", "disconnected", "reconnecting"}

Priority == {"high", "normal", "low"}

PRIORITY_WEIGHTS == [high |-> 3, normal |-> 2, low |-> 1]

NoFrame == [k |-> "-", pc |-> "-", par |-> 0, ws |-> 0, by |-> "-"]

FrameIds == 1..MaxFrames

(* The whole program state as one record, so that a handler is the         *)
(* composition of the calls it makes.  ovf marks a step the bounds cut.     *)
Cur ==
  [state |-> state, isDestroyed |-> isDestroyed, adapter |-> adapter,
   adapters |-> adapters, sockets |-> sockets, frames |-> frames,
   pingInterval |-> pingInterval, pongTimeout |-> pongTimeout,
   attempts |-> attempts, reconnectTimer |-> reconnectTimer,
   queue |-> queue, isSorted |-> isSorted, now |-> now, wire |-> wire,
   ev |-> <<>>, calls |-> calls, sends |-> sends, cfg |-> cfg,
   settled |-> settled, openSince |-> openSince, flushed |-> flushed,
   flushRun |-> flushRun,
   offline |-> offline, cycle |-> cycle, timers |-> timers, mq |-> mq,
   ack |-> ack, rpc |-> rpc, em |-> em, rt |-> rt,
   dd |-> dd, bs |-> bs, mw |-> mw, ovf |-> FALSE]

Commit(m) ==
  /\ ~m.ovf
  /\ state' = m.state
  /\ isDestroyed' = m.isDestroyed
  /\ adapter' = m.adapter
  /\ adapters' = m.adapters
  /\ sockets' = m.sockets
  /\ frames' = m.frames
  /\ pingInterval' = m.pingInterval
  /\ pongTimeout' = m.pongTimeout
  /\ attempts' = m.attempts
  /\ reconnectTimer' = m.reconnectTimer
  /\ queue' = m.queue
  /\ isSorted' = m.isSorted
  /\ now' = m.now
  /\ wire' = m.wire
  /\ ev' = m.ev
  /\ calls' = m.calls
  /\ sends' = m.sends
  /\ cfg' = m.cfg
  /\ settled' = m.settled
  /\ openSince' = m.openSince
  /\ flushed' = m.flushed
  /\ flushRun' = m.flushRun
  /\ offline' = m.offline
  /\ cycle' = m.cycle
  /\ timers' = m.timers
  /\ mq' = m.mq
  /\ ack' = m.ack
  /\ rpc' = m.rpc
  /\ em' = m.em
  /\ rt' = m.rt
  /\ dd' = m.dd
  /\ bs' = m.bs
  /\ mw' = m.mw

(* ---------------------------------------------------------------------- *)
(* EventEmitter and ConnectionManager                                      *)
(* ---------------------------------------------------------------------- *)
Emit(m, e) ==
  [m EXCEPT !.ev = Append(@, <<e>>),
            !.openSince = IF e = "open" THEN TRUE ELSE @]

IsConnected(m) == m.state = "connected"

IsConnecting(m) == m.state = "connecting" \/ m.state = "reconnecting"

(* ---------------------------------------------------------------------- *)
(* HeartbeatManager (timers only).  cfg.interval and cfg.timeout are the   *)
(* durations of the two timers; with both 0 a timer may fire as soon as it *)
(* is armed, which leaves the order of the timers open.                    *)
(* ---------------------------------------------------------------------- *)
NoTimers == [ping |-> 0, pong |-> 0, probe |-> -1, hbws |-> 0]

ClearPongTimeout(m) == [m EXCEPT !.pongTimeout = FALSE, !.timers.pong = 0]

HbStop(m) ==
  ClearPongTimeout([m EXCEPT !.pingInterval = FALSE, !.timers.ping = 0,
                             !.timers.probe = -1])

(* ---------------------------------------------------------------------- *)
(* NativeAdapter                                                           *)
(* A socket is [ad: its adapter, rs: readyState, pr: the promise of the    *)
(* adapter.connect() call that created it, cl: its close may be clean].    *)
(* An adapter is [st: _state, ws: its current socket (0 = null),           *)
(* tmr: connectionTimeout is armed, lis: the client listens to it].        *)
(* ---------------------------------------------------------------------- *)
NewAdapter == [st |-> "disconnected", ws |-> 0, tmr |-> FALSE, lis |-> TRUE]

(* WebSocket.close() of the platform *)
WsClose(m, s) ==
  IF s = 0 THEN m
  ELSE IF m.sockets[s].rs = "CONNECTING"
    THEN [m EXCEPT !.sockets[s].rs = "CLOSING", !.sockets[s].cl = FALSE]
  ELSE IF m.sockets[s].rs = "OPEN"
    THEN [m EXCEPT !.sockets[s].rs = "CLOSING", !.sockets[s].cl = TRUE]
  ELSE m

(* Promise resolve/reject: only the first settlement counts *)
SettlePromise(m, s, how) ==
  IF m.sockets[s].pr = "pending" THEN [m EXCEPT !.sockets[s].pr = how] ELSE m

(* NativeAdapter.connect() called by the connect() frame f *)
AdapterConnect(m, a, f) ==
  IF m.adapters[a].st = "connected" \/ m.adapters[a].st = "connecting"
    THEN [m EXCEPT !.frames[f].pc = "open", !.frames[f].ws = 0]
  ELSE IF Len(m.sockets) >= MaxSockets
    THEN [m EXCEPT !.ovf = TRUE]
  ELSE LET s == Len(m.sockets) + 1 IN
    [m EXCEPT !.sockets = Append(@, [ad |-> a, rs |-> "CONNECTING",
                                     pr |-> "pending", cl |-> FALSE]),
              !.adapters[a].st = "connecting",
              !.adapters[a].ws = s,
              !.adapters[a].tmr = TRUE,
              !.frames[f].pc = "open",
              !.frames[f].ws = s]

AdapterDisconnect(m, a) ==
  LET m1 == [m EXCEPT !.adapters[a].tmr = FALSE] IN
  IF m1.adapters[a].ws = 0 \/ m1.adapters[a].st = "disconnected"
    THEN m1
    ELSE WsClose([m1 EXCEPT !.adapters[a].st = "disconnecting"], m1.adapters[a].ws)

AdapterDestroy(m, a) ==
  LET m1 == AdapterDisconnect([m EXCEPT !.adapters[a].tmr = FALSE], a) IN
  [m1 EXCEPT !.adapters[a].lis = FALSE, !.adapters[a].ws = 0]

(* The payload of the heartbeat probe; the payloads of the consumer are 1, 2, ... *)
PingMessage == 0

(* A payload that JSON.stringify rejects (a cycle, a BigInt) is the        *)
(* negative of its number.                                                 *)
Serializable(d) == d >= 0

(* NativeAdapter.send reached through this.adapter!.send: the result is    *)
(* the new state and whether the call returned (ok) or threw.  The event   *)
(* logged for a message handed to the socket carries openSince.  err is    *)
(* what was thrown: the adapter's own Error, or the exception of           *)
(* JSON.stringify or of the socket.                                        *)
AdapterSend(m, d, p) ==
  LET a == m.adapter IN
  IF a = 0 THEN [m |-> m, ok |-> FALSE, err |-> "TypeError"]
  ELSE IF m.adapters[a].st # "connected" \/ m.adapters[a].ws = 0
    THEN [m |-> m, ok |-> FALSE, err |-> "Error"]
  ELSE IF ~Serializable(d) \/ m.sockets[m.adapters[a].ws].rs = "CONNECTING"
    THEN [m |-> IF m.adapters[a].lis THEN Emit(m, "error") ELSE m, ok |-> FALSE,
          err |-> IF ~Serializable(d) THEN "TypeError" ELSE "InvalidStateError"]
  ELSE [m |-> [m EXCEPT !.ev = Append(@, <<"send", d, m.openSince>>),
                        !.wire = IF d = PingMessage THEN @
                                 ELSE Append(@, [d |-> d, p |-> p])],
        ok |-> TRUE, err |-> "-"]

(* ---------------------------------------------------------------------- *)
(* MessageQueue.  An item is [d: data, p: priority, t: timestamp,          *)
(* r: retries].                                                            *)
(* ---------------------------------------------------------------------- *)
(* the comparator without the priorities: by timestamp only *)
CompareByTime(a, b) == a.t - b.t

Compare(a, b) ==
  LET priorityDiff == PRIORITY_WEIGHTS[b.p] - PRIORITY_WEIGHTS[a.p] IN
  IF priorityDiff # 0 THEN priorityDiff ELSE a.t - b.t

RECURSIVE InsertSorted(_, _)
InsertSorted(s, x) ==
  IF s = <<>> THEN <<x>>
  ELSE IF Compare(Head(s), x) <= 0
    THEN <<Head(s)>> \o InsertSorted(Tail(s), x)
    ELSE <<x>> \o s

(* Array.prototype.sort with the comparator of sortByPriority (stable) *)
RECURSIVE SortPrefix(_, _)
SortPrefix(s, n) ==
  IF n = 0 THEN <<>> ELSE InsertSorted(SortPrefix(s, n - 1), s[n])

SortByPriority(q) == SortPrefix(q, Len(q))

EnsureSorted(m) ==
  IF ~m.isSorted
    THEN [m EXCEPT !.queue = SortByPriority(@), !.isSorted = TRUE]
    ELSE m

RemoveLowPriorityOldest(m) ==
  IF Len(m.queue) = 0 THEN m
  ELSE LET m1 == EnsureSorted(m) IN
       [m1 EXCEPT !.queue = SubSeq(@, 1, Len(@) - 1)]

(* enqueue that makes no room on a full queue *)
EnqueueWithoutEviction(m, d, p, r) ==
  [m EXCEPT !.queue = Append(@, [d |-> d, p |-> p, t |-> m.now, r |-> r]),
            !.isSorted = FALSE]

Enqueue(m, d, p, r) ==
  LET m1 == IF Len(m.queue) >= m.cfg.maxSize THEN RemoveLowPriorityOldest(m) ELSE m IN
  [m1 EXCEPT !.queue = Append(@, [d |-> d, p |-> p, t |-> m.now, r |-> r]),
             !.isSorted = FALSE]

(* dequeue on a non-empty queue: the item is Head(EnsureSorted(m).queue) *)
Dequeue(m) ==
  LET m1 == EnsureSorted(m) IN [m1 EXCEPT !.queue = Tail(@)]

QueueClear(m) == [m EXCEPT !.queue = <<>>, !.isSorted = TRUE]

(* no flushQueue has run *)
NoFlushRun == [start |-> <<>>, tried |-> <<>>]

(* ---------------------------------------------------------------------- *)
(* WebSocketClient.send and ConnectionManager.setState                     *)
(* ---------------------------------------------------------------------- *)
(* send(): thr says whether the call threw, err the class of what it threw *)
ClientSend(m, d, p) ==
  IF m.isDestroyed THEN [m |-> m, thr |-> TRUE, err |-> "Error"]
  ELSE IF ~IsConnected(m)
    THEN IF m.cfg.queue
      THEN [m |-> Enqueue(m, d, p, 0), thr |-> FALSE, err |-> "-"]
      ELSE [m |-> m, thr |-> TRUE, err |-> "Error"]
  ELSE LET r == AdapterSend(m, d, p) IN
    IF r.ok THEN [m |-> r.m, thr |-> FALSE, err |-> "-"]
    ELSE [m |-> IF m.cfg.queue THEN Enqueue(r.m, d, p, 0) ELSE r.m, thr |-> TRUE,
          err |-> r.err]

(* A state-change listener of the consumer: with cfg.listener = "send" it  *)
(* sends one message of normal priority when the new state is connected    *)
(* (the listeners run inside emit, before setState returns).  destroy()    *)
(* removes the listeners of the consumer.                                  *)
StateChangeListener(m, newState) ==
  IF /\ m.cfg.listener = "send"
     /\ ~m.isDestroyed
     /\ newState = "connected"
     /\ m.sends < MaxSends
    THEN ClientSend([m EXCEPT !.sends = @ + 1], m.sends + 1, "normal").m
    ELSE m

SetState(m, newState) ==
  IF m.state = newState
    THEN m
    ELSE StateChangeListener(
           [m EXCEPT !.state = newState,
                     !.ev = Append(@, <<"state-change", m.state, newState>>)],
           newState)

(* ---------------------------------------------------------------------- *)
(* Suspended calls.  A frame is [k: "C" connect, "H" handleReconnect,      *)
(* "R" reconnect; pc: where it waits; par: the frame that awaits it,       *)
(* 0 = the consumer or nobody; ws: the socket whose promise a connect      *)
(* awaits, 0 = a promise already resolved; by: the call site of a          *)
(* handleReconnect: the close listener, the heartbeat timeout or the catch *)
(* of connect()].                                                          *)
(* ---------------------------------------------------------------------- *)
FreeFrame(m) ==
  IF \E f \in FrameIds : m.frames[f].k = "-"
    THEN CHOOSE f \in FrameIds :
           /\ m.frames[f].k = "-"
           /\ \A g \in FrameIds : m.frames[g].k = "-" => f <= g
    ELSE 0

(* A cleared reconnect timer never runs its callback, so the promise of    *)
(* that reconnect() never settles and nothing that awaits it resumes.      *)
RECURSIVE Abandon(_, _)
Abandon(m, f) ==
  LET fr == m.frames[f]
      m1 == [m EXCEPT !.frames[f] = NoFrame]
  IN IF fr.par = 0
       THEN IF fr.k = "C" THEN Emit(m1, "connect-abandoned") ELSE m1
       ELSE Abandon(m1, fr.par)

(* ---------------------------------------------------------------------- *)
(* ReconnectManager                                                        *)
(* ---------------------------------------------------------------------- *)
(* isMaxAttemptsReached with > for >=: one attempt too many *)
IsMaxAttemptsReachedLate(m) == m.cfg.maxAttempts > 0 /\ m.attempts > m.cfg.maxAttempts

IsMaxAttemptsReached(m) == m.cfg.maxAttempts > 0 /\ m.attempts >= m.cfg.maxAttempts

Min(a, b) == IF a <= b THEN a ELSE b

RECURSIVE Pow(_, _)
Pow(b, e) == IF e = 0 THEN 1 ELSE b * Pow(b, e - 1)

(* getNextDelay with jitter 0 *)
GetNextDelay(m) ==
  LET exponentialDelay == m.cfg.delay * Pow(m.cfg.factor, m.attempts)
      cappedDelay == Min(exponentialDelay, m.cfg.maxDelay)
  IN cappedDelay

Cancel(m) ==
  IF m.reconnectTimer # 0
    THEN Abandon([m EXCEPT !.reconnectTimer = 0], m.reconnectTimer)
    ELSE m

Reset(m) == [Cancel(m) EXCEPT !.attempts = 0]

(* The callbacks handleReconnect passes to reconnect() *)
OnReconnecting(m, attempt, delay) ==
  [m EXCEPT !.ev = Append(@, <<"reconnecting", attempt, delay>>)]

OnReconnected(m, n) == [m EXCEPT !.ev = Append(@, <<"reconnected", n>>)]

OnFailed(m, n) ==
  LET m1 == SetState(m, "disconnected") IN
  [m1 EXCEPT !.ev = Append(@, <<"reconnect-failed", n>>)]

(* reconnect() up to the point where it returns its promise: pend says     *)
(* whether the promise is pending (a timer is armed) or already false.     *)
Reconnect(m, awaiter) ==
  IF ~m.cfg.reconnect THEN [m |-> m, pend |-> FALSE]
  ELSE IF IsMaxAttemptsReached(m) THEN [m |-> OnFailed(m, m.attempts), pend |-> FALSE]
  ELSE LET r == FreeFrame(m)
           m1 == [m EXCEPT !.attempts = @ + 1]
           delay == GetNextDelay(m1)
           m2 == OnReconnecting(m1, m1.attempts, delay)
       IN IF r = 0 THEN [m |-> [m EXCEPT !.ovf = TRUE], pend |-> TRUE]
          ELSE [m |-> [m2 EXCEPT !.frames[r] = [k |-> "R", pc |-> "timer",
                                                par |-> awaiter, ws |-> 0,
                                                by |-> "-"],
                                 !.reconnectTimer = r],
                pend |-> TRUE]

(* Settle(m, f, ok): the promise of frame f settles (ok: resolved, or true *)
(* for reconnect) and whatever awaits it continues.                        *)
(* Resume(m, p, ok): frame p continues after the promise it awaited.       *)
RECURSIVE Settle(_, _, _), Resume(_, _, _)
Settle(m, f, ok) ==
  LET fr == m.frames[f]
      m1 == [m EXCEPT !.frames[f] = NoFrame]
  IN IF fr.par # 0 THEN Resume(m1, fr.par, ok)
     ELSE IF fr.k = "C"
       THEN Emit(m1, IF ok THEN "connect-resolved" ELSE "connect-rejected")
     ELSE IF fr.k = "R"
       THEN Emit(m1, IF ok THEN "reconnect-true" ELSE "reconnect-false")
     ELSE m1

Resume(m, p, ok) ==
  LET fr == m.frames[p] IN
  IF m.ovf THEN m
  ELSE IF fr.k = "C"
    \* connect(): the await of handleReconnect() in its catch
    THEN Settle(m, p, TRUE)
  ELSE IF fr.k = "H"
    \* handleReconnect(): after the await of reconnect()
    THEN Settle(IF ~ok THEN SetState(m, "disconnected") ELSE m, p, TRUE)
  ELSE IF fr.pc = "awaitConn"
    \* reconnect(): the timer callback after the await of connectFn()
    THEN IF ok
      THEN Settle(Reset(OnReconnected(m, m.attempts)), p, TRUE)
      ELSE IF ~IsMaxAttemptsReached(m)
        THEN LET r == Reconnect([m EXCEPT !.frames[p].pc = "awaitNested"], p) IN
             IF r.pend THEN r.m ELSE Settle(r.m, p, FALSE)
        ELSE Settle(OnFailed(m, m.attempts), p, FALSE)
  \* reconnect(): resolve(success) after the nested reconnect()
  ELSE Settle(m, p, ok)

(* handleReconnect() up to its await *)
HandleReconnect(m, par, by) ==
  IF m.isDestroyed \/ ~m.cfg.reconnect THEN [m |-> m, pend |-> FALSE]
  ELSE LET m1 == SetState(m, "reconnecting")
           h == FreeFrame(m1)
       IN IF h = 0 THEN [m |-> [m EXCEPT !.ovf = TRUE], pend |-> TRUE]
          ELSE LET m2 == [m1 EXCEPT !.frames[h] = [k |-> "H", pc |-> "awaitR",
                                                   par |-> par, ws |-> 0,
                                                   by |-> by]]
                   r == Reconnect(m2, h)
               IN IF r.pend THEN r
                  ELSE [m |-> SetState([r.m EXCEPT !.frames[h] = NoFrame], "disconnected"),
                        pend |-> FALSE]

(* ---------------------------------------------------------------------- *)
(* WebSocketClient                                                         *)
(* ---------------------------------------------------------------------- *)
(* HeartbeatManager.sendPing with the sendFn of startHeartbeat *)
SendPing(m) ==
  LET m1 == IF IsConnected(m)
              THEN LET r == AdapterSend(m, PingMessage, "normal") IN
                   IF r.ok
                     THEN [r.m EXCEPT !.ev = Append(@, <<"ping", m.timers.probe >= 0>>),
                                      !.timers.probe = IF @ < 0 THEN 0 ELSE @]
                     ELSE r.m
              ELSE m
  IN [ClearPongTimeout(m1) EXCEPT !.pongTimeout = TRUE,
                                  !.timers.pong = m.cfg.timeout]

(* startHeartbeat -> HeartbeatManager.start *)
StartHeartbeat(m) ==
  IF ~m.cfg.heartbeat \/ m.pingInterval THEN m
  ELSE SendPing([m EXCEPT !.pingInterval = TRUE, !.timers.ping = m.cfg.interval])

(* One turn of the while loop of MessageQueue.flush, with the sendFn of    *)
(* flushQueue, inside the connect() frame f                                *)
(* The end of the try block of connect(): its promise resolves.  The event *)
(* logged carries the socket whose opening the call awaited (0: none, the  *)
(* adapter returned at once).                                              *)
ConnectSucceeds(m, f) ==
  Settle([m EXCEPT !.ev = Append(@, <<"connect-succeeded", m.frames[f].ws>>)], f, TRUE)

FlushOne(m, f) ==
  IF Len(m.queue) = 0 THEN ConnectSucceeds(m, f)
  ELSE LET item == Head(EnsureSorted(m).queue)
           r == ClientSend([Dequeue(m) EXCEPT !.flushRun.tried = Append(@, item.d)],
                           item.d, item.p)
           m1 == IF Len(r.m.wire) > Len(m.wire)
                   THEN [r.m EXCEPT !.flushed = Append(@, [d |-> item.d, p |-> item.p])]
                   ELSE r.m
       IN IF r.thr
            THEN ConnectSucceeds(Enqueue(m1, item.d, item.p, item.r + 1), f)
            ELSE [m1 EXCEPT !.frames[f].pc = "flush"]

FlushQueue(m, f) ==
  IF ~m.cfg.queue \/ Len(m.queue) = 0
    THEN ConnectSucceeds(m, f)
    ELSE FlushOne([m EXCEPT !.flushed = <<>>,
                            !.flushRun = [start |-> [i \in 1..Len(m.queue) |-> m.queue[i].d],
                                          tried |-> <<>>]], f)

Disconnect(m) ==
  IF m.isDestroyed THEN m
  ELSE LET m1 == Cancel(HbStop(m))
           m2 == IF m1.adapter # 0 THEN AdapterDisconnect(m1, m1.adapter) ELSE m1
       IN SetState(m2, "disconnected")

Destroy(m) ==
  IF m.isDestroyed THEN m
  ELSE LET m1 == QueueClear(Reset(HbStop(Disconnect(m))))
           m2 == IF m1.adapter # 0
                   THEN [AdapterDestroy(m1, m1.adapter) EXCEPT !.adapter = 0]
                   ELSE m1
       IN [m2 EXCEPT !.isDestroyed = TRUE]

(* Who called connect(): the consumer, or the reconnect cycle of the        *)
(* nearest handleReconnect above the frame par                             *)
RECURSIVE Origin(_, _)
Origin(m, par) ==
  IF par = 0 THEN "consumer"
  ELSE IF m.frames[par].k = "H" THEN m.frames[par].by
  ELSE IF m.frames[par].par = 0 THEN "manager"
  ELSE Origin(m, m.frames[par].par)

(* connect() up to its first await; par = 0 for a call of the consumer,    *)
(* the reconnect() frame for the connectFn of handleReconnect.  In the     *)
(* stand-alone ReconnectManager the connectFn is a stub that settles later.*)
ConnectCall(m0, par) ==
  LET f == FreeFrame(m0)
      m == [m0 EXCEPT !.ev = Append(@, <<"connect-called", Origin(m0, par), m0.state>>)]
  IN
  IF m.cfg.mode = "manager"
    THEN IF f = 0 THEN [m EXCEPT !.ovf = TRUE]
         ELSE [m EXCEPT !.frames[f] = [k |-> "C", pc |-> "stub", par |-> par, ws |-> 0,
                                       by |-> "-"],
                        !.cycle.n = @ + 1]
  ELSE IF m.isDestroyed
    THEN IF par = 0 THEN Emit(m, "connect-rejected") ELSE Resume(m, par, FALSE)
  ELSE IF IsConnected(m) \/ IsConnecting(m)
    THEN IF par = 0 THEN Emit(m, "connect-resolved") ELSE Resume(m, par, TRUE)
  ELSE IF f = 0 THEN [m EXCEPT !.ovf = TRUE]
  ELSE LET m1 == SetState(m, "connecting")
           m2 == [m1 EXCEPT !.frames[f] = [k |-> "C", pc |-> "factory",
                                           par |-> par, ws |-> 0, by |-> "-"],
                            !.openSince = FALSE]
       IN IF m2.adapter = 0 THEN m2 ELSE AdapterConnect(m2, m2.adapter, f)

(* connect() after the await of AdapterFactory.create *)
ConnectAfterCreate(m, f) ==
  IF Len(m.adapters) >= MaxAdapters THEN [m EXCEPT !.ovf = TRUE]
  ELSE LET a == Len(m.adapters) + 1
           m1 == [m EXCEPT !.adapters = Append(@, NewAdapter), !.adapter = a]
       IN AdapterConnect(m1, a, f)

(* connect() after the await of adapter.connect() *)
ConnectAfterOpen(m, f) ==
  LET fr == m.frames[f]
      ok == fr.ws = 0 \/ m.sockets[fr.ws].pr = "resolved"
  IN IF ok
       THEN LET m1 == Emit(SetState(m, "connected"), "open")
                m2 == IF m1.cfg.heartbeat THEN StartHeartbeat(m1) ELSE m1
            IN FlushQueue(m2, f)
       ELSE LET m1 == SetState(m, "disconnected") IN
            IF m1.cfg.reconnect
              THEN LET h == HandleReconnect([m1 EXCEPT !.frames[f].pc = "awaitHR"], f, "catch") IN
                   IF h.pend THEN h.m ELSE Settle(h.m, f, TRUE)
              ELSE Settle(m1, f, FALSE)

(* The listeners of setupAdapterListeners *)
OnAdapterOpen(m, a) ==
  IF m.adapters[a].lis THEN Emit(SetState(m, "connected"), "open") ELSE m

(* the close listener without the test of wasClean *)
OnAdapterCloseAnyClose(m, a, wasClean) ==
  IF ~m.adapters[a].lis THEN m
  ELSE LET m1 == HbStop(m)
           wasConnected == IsConnected(m1)
           m2 == Emit(SetState(m1, "disconnected"), "close")
       IN IF wasConnected /\ m2.cfg.reconnect
            THEN HandleReconnect(m2, 0, "close").m
            ELSE m2

OnAdapterClose(m, a, wasClean) ==
  IF ~m.adapters[a].lis THEN m
  ELSE LET m1 == HbStop(m)
           wasConnected == IsConnected(m1)
           m2 == Emit(SetState(m1, "disconnected"), "close")
       IN IF wasConnected /\ ~wasClean /\ m2.cfg.reconnect
            THEN HandleReconnect(m2, 0, "close").m
            ELSE m2

OnAdapterError(m, a) ==
  IF m.adapters[a].lis THEN Emit(m, "error") ELSE m

OnAdapterPong(m, a) ==
  IF m.adapters[a].lis
    THEN Emit(ClearPongTimeout([m EXCEPT !.timers.probe = -1]), "pong")
    ELSE m

(* The timeout callback of startHeartbeat *)
OnHeartbeatTimeout(m) ==
  LET s == IF m.adapter = 0 THEN 0 ELSE m.adapters[m.adapter].ws
      m0 == [m EXCEPT !.ev = Append(@, <<"heartbeat-timeout", m.state, m.attempts>>),
                      !.timers.hbws = IF s # 0 /\ m.sockets[s].rs = "OPEN" THEN s ELSE @]
      m1 == Disconnect(m0)
  IN IF m1.cfg.reconnect THEN HandleReconnect(m1, 0, "timeout").m ELSE m1

(* ---------------------------------------------------------------------- *)
(* Steps                                                                   *)
(* ---------------------------------------------------------------------- *)
Runnable(f) ==
  IF frames[f].pc = "open"
    THEN IF frames[f].ws = 0 THEN TRUE ELSE sockets[frames[f].ws].pr # "pending"
    ELSE frames[f].pc \in {"factory", "flush"}

(* No continuation is waiting to run: the next task may start *)
Idle == \A f \in FrameIds : ~Runnable(f)

SocketIds == 1..Len(sockets)

AdapterIds == 1..Len(adapters)

(* Calls of the consumer *)
Connect ==
  /\ calls < MaxCalls
  /\ Commit(ConnectCall([Cur EXCEPT !.calls = @ + 1, !.settled = FALSE], 0))

DisconnectCall ==
  /\ calls < MaxCalls
  /\ Commit(Emit(Disconnect([Cur EXCEPT !.calls = @ + 1, !.settled = ~isDestroyed]),
                 "disconnect-returned"))

DestroyCall ==
  /\ calls < MaxCalls
  /\ Commit(Destroy([Cur EXCEPT !.calls = @ + 1]))

Send ==
  /\ sends < MaxSends
  /\ \E p \in Priority, dt \in {0, 1},
        json \in IF cfg.payloads = "any" THEN BOOLEAN ELSE {TRUE} :
       /\ now + dt <= MaxNow
       /\ LET queued == ~isDestroyed /\ state # "connected" /\ cfg.queue
              d == IF json THEN sends + 1 ELSE 0 - (sends + 1)
              m1 == [Cur EXCEPT !.sends = @ + 1, !.now = @ + dt,
                                !.offline = IF queued THEN @ \cup {d} ELSE @]
              r == ClientSend(m1, d, p)
              quiet == r.m.adapters = adapters /\ r.m.sockets = sockets
                       /\ r.m.wire = wire /\ r.m.ev = <<>>
          IN Commit([r.m EXCEPT !.ev = Append(@,
                       <<IF r.thr THEN "send-threw" ELSE "send-returned",
                         ~isDestroyed /\ state = "connected", d, r.err, p, quiet,
                         r.m.queue = queue /\ r.m.state = state>>)])

(* Continuations of connect() *)
AdapterCreated ==
  \E f \in FrameIds :
    /\ frames[f].pc = "factory"
    /\ Commit(ConnectAfterCreate(Cur, f))

ConnectContinues ==
  \E f \in FrameIds :
    /\ frames[f].pc = "open"
    /\ Runnable(f)
    /\ Commit(ConnectAfterOpen(Cur, f))

FlushContinues ==
  \E f \in FrameIds :
    /\ frames[f].pc = "flush"
    /\ Len(flushRun.tried) < MaxFlushTurns
    /\ Commit(FlushOne(Cur, f))

(* Events of a socket: ws.onopen, ws.onerror, ws.onclose, ws.onmessage *)
SocketOpens ==
  \E s \in SocketIds :
    /\ Idle
    /\ sockets[s].rs = "CONNECTING"
    /\ LET a == sockets[s].ad
           m1 == [Cur EXCEPT !.sockets[s].rs = "OPEN",
                             !.adapters[a].tmr = FALSE,
                             !.adapters[a].st = "connected"]
       IN Commit(SettlePromise(OnAdapterOpen(m1, a), s, "resolved"))

SocketFails ==
  \E s \in SocketIds :
    /\ Idle
    /\ sockets[s].rs \in {"CONNECTING", "OPEN"}
    /\ LET a == sockets[s].ad
           m1 == [Cur EXCEPT !.sockets[s].rs = "CLOSING",
                             !.sockets[s].cl = FALSE,
                             !.adapters[a].tmr = FALSE]
           m2 == OnAdapterError(m1, a)
       IN Commit(IF m2.adapters[a].st = "connecting"
                   THEN SettlePromise(m2, s, "rejected")
                   ELSE m2)

SocketCloses ==
  \E s \in SocketIds, wasClean \in BOOLEAN :
    /\ Idle
    /\ \/ sockets[s].rs = "OPEN" /\ wasClean
       \/ sockets[s].rs = "CLOSING" /\ (wasClean => sockets[s].cl)
    /\ LET a == sockets[s].ad
           wasConnected == adapters[a].st = "connected"
           m1 == [Cur EXCEPT !.sockets[s].rs = "CLOSED",
                             !.adapters[a].tmr = FALSE,
                             !.adapters[a].st = "disconnected",
                             !.ev = <<<<"close-event", s = timers.hbws, reconnectTimer,
                                        wasClean, state>>>>,
                             !.timers.hbws = IF @ = s THEN 0 ELSE @]
           m2 == OnAdapterClose(m1, a, wasClean)
       IN Commit(IF ~wasConnected THEN SettlePromise(m2, s, "rejected") ELSE m2)

PongArrives ==
  \E s \in SocketIds :
    /\ Idle
    /\ sockets[s].rs = "OPEN"
    /\ pongTimeout
    /\ Commit(OnAdapterPong(Cur, sockets[s].ad))

(* Timers *)
ConnectionTimeout ==
  \E a \in AdapterIds :
    /\ Idle
    /\ adapters[a].tmr
    /\ LET m1 == [Cur EXCEPT !.adapters[a].tmr = FALSE] IN
       Commit(IF m1.adapters[a].st = "connecting"
                THEN LET s == m1.adapters[a].ws
                         m2 == OnAdapterError(WsClose(m1, s), a)
                     IN IF s # 0 THEN SettlePromise(m2, s, "rejected") ELSE m2
                ELSE m1)

PingTimer ==
  /\ Idle
  /\ pingInterval
  /\ timers.ping = 0
  /\ Commit(SendPing([Cur EXCEPT !.timers.ping = cfg.interval]))

PongTimer ==
  /\ Idle
  /\ pongTimeout
  /\ timers.pong = 0
  /\ Commit(OnHeartbeatTimeout([Cur EXCEPT !.pongTimeout = FALSE,
                                           !.timers.probe = -1]))

ReconnectTimer ==
  \E r \in FrameIds :
    /\ Idle
    /\ frames[r].k = "R"
    /\ frames[r].pc = "timer"
    /\ LET m1 == [Cur EXCEPT !.frames[r].pc = "awaitConn",
                             !.reconnectTimer = IF @ = r THEN 0 ELSE @]
       IN Commit(ConnectCall(m1, r))

(* ---------------------------------------------------------------------- *)
(* The client                                                              *)
(* ---------------------------------------------------------------------- *)
MaxAttemptsBound == 2

DefaultMaxSize == 1000

(* The history of a reconnect() cycle: start is the attempt counter when   *)
(* the cycle began, cut whether cancel() or reset() came during it, n the  *)
(* calls of the connect function, rej those that rejected, failed and ok   *)
(* the calls of onFailed and onReconnected, fa the attempts onFailed last  *)
(* reported, res what the promise of reconnect() resolved to.              *)
NoCycle == [on |-> FALSE, start |-> 0, cut |-> FALSE, n |-> 0, rej |-> 0,
            failed |-> 0, fa |-> 0, ok |-> 0, res |-> "-"]

(* The configurations of the client that are explored: every combination   *)
(* of reconnect, heartbeat, queue and the listener of the consumer, but    *)
(* not heartbeat and queue together.                                       *)
ClientConfigs ==
  {c \in [mode : {"client"}, reconnect : BOOLEAN, heartbeat : BOOLEAN, queue : BOOLEAN,
          listener : {"none", "send"},
          maxAttempts : {1}, maxSize : {DefaultMaxSize},
          delay : {100}, maxDelay : {1000}, factor : {2},
          interval : {0}, timeout : {0}, payloads : {"json"},
          emitter : {"core"}] :
     ~(c.heartbeat /\ c.queue)}

MaxAckMessages == 2

MaxRetries == 2

MaxRequests == 2

AckIds == 1..MaxAckMessages

RpcIds == 1..MaxRequests

MaxPlain == 2

MaxWrappers == 2

DEFAULT_MAX_LISTENERS == 10

(* The listeners of the consumer registered with on, and the onceWrapper   *)
(* functions that once creates                                             *)
Plain == 1..MaxPlain

Wrappers == (MaxPlain + 1)..(MaxPlain + MaxWrappers)

ListenerIds == Plain \cup Wrappers

(* An emitter: impl = which of the two implementations, sets = the Set     *)
(* objects made for the event (a deleted element leaves a 0 in its place,  *)
(* as an iteration in progress sees it), cur = the Set the map holds (0:   *)
(* none), nw = the wrappers made.  History: warnings = the warnings since  *)
(* the threshold was set, exceeded = the size went over the threshold      *)
(* since then, inv = the invocations of each wrapped listener, log = the   *)
(* invocations of the running emit, ran = the listeners that emitted.      *)
NewEmitter(impl) ==
  [impl |-> impl, sets |-> <<>>, cur |-> 0, max |-> DEFAULT_MAX_LISTENERS,
   warned |-> FALSE, warnings |-> 0, exceeded |-> FALSE, nw |-> 0,
   inv |-> [w \in Wrappers |-> 0], log |-> <<>>, ran |-> {}]

MaxRoutes == 2

MaxDispatches == 2

RouteIds == 1..MaxRoutes

DispatchIds == 1..MaxDispatches

(* A suspended dispatch: pc = which await it stands at, matched = its      *)
(* matchedRoutes, i = the route whose handler it awaits, handled =         *)
(* context.handled                                                         *)
NoDispatch == [pc |-> "-", matched |-> <<>>, i |-> 0, handled |-> FALSE]

(* A router: routes, subscriptions, defaultHandler is set, the suspended   *)
(* dispatch calls, n = the routes registered so far.  History: inv = the   *)
(* invocations of each route's handler, fin = the handler of the route has *)
(* run to its end, once = the routes registered with once.                 *)
NewRouter ==
  [routes |-> <<>>, subscriptions |-> {}, defaultHandler |-> FALSE,
   d |-> [i \in DispatchIds |-> NoDispatch], n |-> 0,
   inv |-> [i \in RouteIds |-> 0], fin |-> [i \in RouteIds |-> FALSE], once |-> {}]

DedupMaxSize == 10000

(* windowSize in units of a quarter of the window; the cleanup timer runs  *)
(* every windowSize / 2                                                    *)
WindowSize == 4

DedupKeys == {"id:1", "hash:a", "hash:b", "hash:c"}

(* A deduplicator: now = the clock, due = when the cleanup timer fires     *)
(* next, rec = the timestamp of the record of each key (-1: no record).    *)
(* History: last = when each key was marked last, marked = the messages    *)
(* that were marked, prev = the message of the markProcessed call that was *)
(* the last thing to happen (0: it was something else).                    *)
NewDeduplicator ==
  [now |-> 0, due |-> WindowSize \div 2, rec |-> [k \in DedupKeys |-> -1],
   last |-> [k \in DedupKeys |-> -1], marked |-> {}, prev |-> 0]

MaxBatchAdds == 3

BatchMaxSize == 2

BatchMaxBytes == 3

BatchMaxWait == 2

(* A batch sender: buffer, bufferBytes, flushTimer = the time left on the  *)
(* flush timer (-1: null), n = the messages added so far.  History:        *)
(* handed = the sendFn calls each message was in, age = the time since the *)
(* first message of the buffer that was in no sendFn call yet was added,   *)
(* out = the messages of all sendFn calls in order, threw = a sendFn call  *)
(* threw.                                                                  *)
NewBatchSender ==
  [buffer |-> <<>>, bufferBytes |-> 0, flushTimer |-> -1, n |-> 0, age |-> 0,
   handed |-> [i \in 1..MaxBatchAdds |-> 0], out |-> <<>>, threw |-> FALSE]

MaxMiddlewares == 3

(* An executeChain call: list = the array it was given (shared = it is     *)
(* still the array of the manager, so a later use pushes onto it), index,  *)
(* skip = context.shouldSkip, stack = the middlewares that were entered    *)
(* and have not returned, innermost last, each before its own work (pre),  *)
(* inside its `await next()` (await) or after it (post), res = how the     *)
(* call completed.  History: log = the work done in order, skipAt = the    *)
(* length of the log when shouldSkip became true (-1: it is not).          *)
NoRun ==
  [on |-> FALSE, dir |-> "-", list |-> <<>>, shared |-> FALSE, index |-> 0,
   skip |-> FALSE, stack |-> <<>>, res |-> "-", log |-> <<>>, skipAt |-> -1]

NewMiddlewareManager ==
  [sendMiddlewares |-> <<>>, receiveMiddlewares |-> <<>>, run |-> NoRun, n |-> 0]

(* The value of an optional argument that was not passed *)
Undefined == -1

AckDefaultTimeout == 5000

RpcDefaultTimeout == 30000

(* The per-call timeouts of send and request *)
Timeouts == {Undefined, 50}

(* x ?? d *)
OrElse(x, d) == IF x = Undefined THEN d ELSE x

(* A message of the AckManager: live = it is in pendingMessages, timer =   *)
(* pending.timer is not null, max = the maxRetries its timer callbacks     *)
(* carry, armed = the platform holds a timer for it.  History: cb = the    *)
(* callbacks invoked, sent = the sendFn calls that returned, threw = a     *)
(* sendFn call threw or was not possible, gone = cb and sent when          *)
(* handleAck, cancel or cancelAll removed the entry; timeout =             *)
(* options.timeout, terr = the timeout field of each TimeoutError raised.  *)
NoPending ==
  [live |-> FALSE, retries |-> 0, timer |-> FALSE, max |-> 0, armed |-> FALSE,
   cb |-> <<>>, sent |-> 0, threw |-> FALSE, gone |-> <<>>,
   timeout |-> Undefined, terr |-> <<>>]

NoAcks == [sendFn |-> FALSE, n |-> 0, msg |-> [i \in AckIds |-> NoPending]]

(* A request of the RpcManager: live = it is in pendingRequests, timer =   *)
(* pending.timer is not null, armed = the platform holds a timer for it.   *)
(* History: calls = the resolve/reject calls made on its completion,       *)
(* timeoutMs = the duration its timer was armed with, terr = the timeout   *)
(* field of each TimeoutError raised.                                      *)
NoRequest ==
  [live |-> FALSE, timer |-> FALSE, armed |-> FALSE, calls |-> <<>>,
   timeoutMs |-> Undefined, terr |-> <<>>]

NoRequests == [n |-> 0, req |-> [i \in RpcIds |-> NoRequest]]

NoItem == [d |-> 0, p |-> "normal", t |-> 0, r |-> 0]

NoFlush == [pc |-> "idle", item |-> NoItem, sentCount |-> 0, seq |-> <<>>, done |-> 0]

InitWith(c) ==
  /\ state = "disconnected"
  /\ isDestroyed = FALSE
  /\ adapter = 0
  /\ adapters = <<>>
  /\ sockets = <<>>
  /\ frames = [f \in FrameIds |-> NoFrame]
  /\ pingInterval = FALSE
  /\ pongTimeout = FALSE
  /\ attempts = 0
  /\ reconnectTimer = 0
  /\ queue = <<>>
  /\ isSorted = TRUE
  /\ now = 0
  /\ wire = <<>>
  /\ ev = <<>>
  /\ calls = 0
  /\ sends = 0
  /\ cfg = c
  /\ settled = FALSE
  /\ openSince = FALSE
  /\ flushed = <<>>
  /\ flushRun = NoFlushRun
  /\ offline = {}
  /\ cycle = NoCycle
  /\ timers = NoTimers
  /\ mq = NoFlush
  /\ ack = NoAcks
  /\ rpc = NoRequests
  /\ em = NewEmitter(c.emitter)
  /\ rt = NewRouter
  /\ dd = NewDeduplicator
  /\ bs = NewBatchSender
  /\ mw = NewMiddlewareManager

Init == \E c \in ClientConfigs : InitWith(c)

Next ==
  \/ Connect
  \/ DisconnectCall
  \/ DestroyCall
  \/ Send
  \/ AdapterCreated
  \/ ConnectContinues
  \/ FlushContinues
  \/ SocketOpens
  \/ SocketFails
  \/ SocketCloses
  \/ PongArrives
  \/ ConnectionTimeout
  \/ PingTimer
  \/ PongTimer
  \/ ReconnectTimer

Spec == Init /\ [][Next]_vars

(* The client while the consumer neither disconnects nor destroys it *)
NextSession ==
  \/ Connect
  \/ Send
  \/ AdapterCreated
  \/ ConnectContinues
  \/ FlushContinues
  \/ SocketOpens
  \/ SocketFails
  \/ SocketCloses
  \/ PongArrives
  \/ ConnectionTimeout
  \/ PingTimer
  \/ PongTimer
  \/ ReconnectTimer

SpecSession == Init /\ [][NextSession]_vars

(* The client of a consumer whose payloads need not be serializable, with  *)
(* reconnection and heartbeat off                                          *)
SendConfigs ==
  [mode : {"client"}, reconnect : {FALSE}, heartbeat : {FALSE}, queue : BOOLEAN,
   listener : {"none"},
   maxAttempts : {1}, maxSize : {DefaultMaxSize},
   delay : {100}, maxDelay : {1000}, factor : {2},
   interval : {0}, timeout : {0}, payloads : {"any"},
   emitter : {"core"}]

InitSend == \E c \in SendConfigs : InitWith(c)

NextSend ==
  \/ Connect
  \/ Send
  \/ AdapterCreated
  \/ ConnectContinues
  \/ FlushContinues
  \/ SocketOpens
  \/ SocketFails
  \/ SocketCloses
  \/ ConnectionTimeout

SpecSend == InitSend /\ [][NextSend]_vars

(* ---------------------------------------------------------------------- *)
(* The heartbeat against a peer that never answers a probe, with timers    *)
(* that take time: Tick lets one unit of time pass when no armed heartbeat *)
(* timer is due.                                                           *)
(* ---------------------------------------------------------------------- *)
MaxInterval == 2

MaxTimeout == 3

MaxProbeAge == 4

Tick ==
  /\ Idle
  /\ pingInterval \/ pongTimeout
  /\ pingInterval => timers.ping > 0
  /\ pongTimeout => timers.pong > 0
  /\ timers.probe < MaxProbeAge
  /\ Commit([Cur EXCEPT !.timers.ping = IF pingInterval THEN @ - 1 ELSE @,
                         !.timers.pong = IF pongTimeout THEN @ - 1 ELSE @,
                         !.timers.probe = IF @ >= 0 THEN @ + 1 ELSE @])

(* Equal durations are left out: the order in which the platform runs two  *)
(* timers that are due at the same instant is not modelled.                *)
HeartbeatConfigs ==
  {c \in [mode : {"client"}, reconnect : BOOLEAN, heartbeat : {TRUE}, queue : {FALSE},
          listener : {"none"},
          maxAttempts : {1}, maxSize : {DefaultMaxSize},
          delay : {100}, maxDelay : {1000}, factor : {2},
          interval : 1..MaxInterval, timeout : 1..MaxTimeout,
          payloads : {"json"}, emitter : {"core"}] :
     c.interval # c.timeout}

InitHeartbeat == \E c \in HeartbeatConfigs : InitWith(c)

NextHeartbeat ==
  \/ Connect
  \/ AdapterCreated
  \/ ConnectContinues
  \/ SocketOpens
  \/ SocketCloses
  \/ PingTimer
  \/ PongTimer
  \/ ReconnectTimer
  \/ Tick

SpecHeartbeat == InitHeartbeat /\ [][NextHeartbeat]_vars

(* ---------------------------------------------------------------------- *)
(* The ReconnectManager on its own: the consumer calls reconnect() with a  *)
(* connect function that settles later, as the tests of the manager do.    *)
(* A reconnect() called while an earlier one is pending counts as a cut of *)
(* the cycle whose history is kept.                                        *)
(* ---------------------------------------------------------------------- *)
Count(log, name) == Cardinality({i \in 1..Len(log) : log[i][1] = name})

(* Enter what the step emitted into the history of the cycle *)
Tally(m) ==
  LET failedAt == {i \in 1..Len(m.ev) : m.ev[i][1] = "reconnect-failed"}
      res == IF Count(m.ev, "reconnect-true") > 0 THEN "true"
             ELSE IF Count(m.ev, "reconnect-false") > 0 THEN "false"
             ELSE m.cycle.res
  IN [m EXCEPT !.cycle.failed = @ + Cardinality(failedAt),
               !.cycle.fa = IF failedAt = {} THEN @
                            ELSE m.ev[CHOOSE i \in failedAt : TRUE][2],
               !.cycle.ok = @ + Count(m.ev, "reconnected"),
               !.cycle.res = res,
               !.cycle.on = res = "-"]

RmReconnect ==
  /\ calls < MaxCalls
  /\ LET m0 == [Cur EXCEPT !.calls = @ + 1,
                           !.cycle = IF \A f \in FrameIds : frames[f].k = "-"
                                       THEN [NoCycle EXCEPT !.on = TRUE, !.start = attempts]
                                       ELSE [@ EXCEPT !.cut = TRUE]]
         r == Reconnect(m0, 0)
     IN Commit(Tally(IF r.pend THEN r.m ELSE Emit(r.m, "reconnect-false")))

RmConnectFnSettles ==
  \E f \in FrameIds, ok \in BOOLEAN :
    /\ frames[f].pc = "stub"
    /\ Commit(Tally(Settle([Cur EXCEPT !.cycle.rej = IF ok THEN @ ELSE @ + 1], f, ok)))

RmCancel ==
  /\ calls < MaxCalls
  /\ Commit(Emit(Cancel([Cur EXCEPT !.calls = @ + 1, !.cycle.cut = @ \/ cycle.on]),
                 "cancel-returned"))

RmReset ==
  /\ calls < MaxCalls
  /\ Commit(Emit(Reset([Cur EXCEPT !.calls = @ + 1, !.cycle.cut = @ \/ cycle.on]),
                 "reset-returned"))

ManagerConfigs ==
  [mode : {"manager"}, reconnect : BOOLEAN, heartbeat : {FALSE}, queue : {FALSE},
   listener : {"none"},
   maxAttempts : 1..MaxAttemptsBound, maxSize : {DefaultMaxSize},
   delay : {100}, maxDelay : {1000}, factor : {2},
   interval : {0}, timeout : {0}, payloads : {"json"},
   emitter : {"core"}]

InitReconnect == \E c \in ManagerConfigs : InitWith(c)

NextReconnect ==
  \/ RmReconnect
  \/ ReconnectTimer
  \/ RmConnectFnSettles
  \/ RmCancel
  \/ RmReset

SpecReconnect == InitReconnect /\ [][NextReconnect]_vars

(* The same with the scheduling of the platform: an armed timer that is    *)
(* not cleared fires, and the connect function of the consumer settles.    *)
SpecReconnectFair ==
  /\ SpecReconnect
  /\ WF_vars(ReconnectTimer)
  /\ WF_vars(RmConnectFnSettles)

(* ---------------------------------------------------------------------- *)
(* The MessageQueue on its own.  The consumer enqueues payloads 1, 2, ...  *)
(* and calls dequeue, dequeueBatch, flush, removeById and clear.  flush is *)
(* suspended at `await sendFn(item)` until the sendFn settles, and the     *)
(* consumer may call the queue meanwhile.  An item is known by its payload *)
(* and its retries.                                                        *)
(* ---------------------------------------------------------------------- *)
MaxSizeBound == 3

MaxEnqueues == 4

MaxQueueCalls == 3

MaxBatch == 2

Key(x) == <<x.d, x.r>>

Items(q) == {q[i] : i \in 1..Len(q)}

(* enqueue, with what it removed and what was queued before entered in the log *)
LoggedEnqueue(m, d, p, r) ==
  LET m1 == Enqueue(m, d, p, r)
      new == [d |-> d, p |-> p, t |-> m.now, r |-> r]
  IN [m1 EXCEPT !.ev = Append(@, <<"enqueued", new, Items(m.queue) \ Items(m1.queue),
                                   m.queue, Len(m.queue) >= m.cfg.maxSize>>),
                !.mq.seq = Append(@, Key(new))]

(* dequeue: null on an empty queue *)
LoggedDequeue(m) ==
  IF Len(m.queue) = 0 THEN [m EXCEPT !.ev = Append(@, <<"dequeued-null">>)]
  ELSE LET item == Head(EnsureSorted(m).queue)
           m1 == Dequeue(m)
       IN [m1 EXCEPT !.ev = Append(@, <<"dequeued", item, m1.queue>>)]

RECURSIVE DequeueBatch(_, _)
DequeueBatch(m, n) ==
  IF n = 0 THEN m ELSE DequeueBatch(LoggedDequeue(m), n - 1)

(* The while loop of flush from its head to the next await or the return *)
FlushLoop(m) ==
  IF Len(m.queue) = 0
    THEN [m EXCEPT !.ev = Append(@, <<"flush-returned", m.mq.sentCount, m.mq.done>>),
                   !.mq.pc = "idle", !.mq.item = NoItem, !.mq.sentCount = 0,
                   !.mq.done = 0]
    ELSE LET item == Head(EnsureSorted(m).queue)
             m1 == Dequeue(m)
         IN [m1 EXCEPT !.ev = Append(@, <<"sendFn", item, m1.queue>>),
                       !.mq.pc = "send", !.mq.item = item]

(* the put-back of flush with the retries left as they were *)
FlushResumeSameRetries(m, ok) ==
  IF ok THEN FlushLoop([m EXCEPT !.mq.sentCount = @ + 1, !.mq.done = @ + 1])
  ELSE LET item == m.mq.item
           m1 == LoggedEnqueue(m, item.d, item.p, item.r)
       IN [m1 EXCEPT !.ev = Append(@, <<"flush-failed", item>>)
                           \o <<<<"flush-returned", m.mq.sentCount, m.mq.done>>>>,
                     !.mq.pc = "idle", !.mq.item = NoItem, !.mq.sentCount = 0,
                     !.mq.done = 0]

(* flush resumes after `await sendFn(item)` *)
FlushResume(m, ok) ==
  IF ok THEN FlushLoop([m EXCEPT !.mq.sentCount = @ + 1, !.mq.done = @ + 1])
  ELSE LET item == m.mq.item
           m1 == LoggedEnqueue(m, item.d, item.p, item.r + 1)
       IN [m1 EXCEPT !.ev = Append(@, <<"flush-failed", item>>)
                           \o <<<<"flush-returned", m.mq.sentCount, m.mq.done>>>>,
                     !.mq.pc = "idle", !.mq.item = NoItem, !.mq.sentCount = 0,
                     !.mq.done = 0]

QEnqueue ==
  /\ sends < MaxEnqueues
  /\ \E p \in Priority, dt \in {0, 1} :
       /\ now + dt <= MaxNow
       /\ Commit(LoggedEnqueue([Cur EXCEPT !.sends = @ + 1, !.now = @ + dt],
                               sends + 1, p, 0))

QDequeue ==
  /\ calls < MaxQueueCalls
  /\ Commit(LoggedDequeue([Cur EXCEPT !.calls = @ + 1]))

QDequeueBatch ==
  /\ calls < MaxQueueCalls
  /\ \E count \in 1..MaxBatch :
       Commit(DequeueBatch([Cur EXCEPT !.calls = @ + 1], Min(count, Len(queue))))

QFlush ==
  /\ calls < MaxQueueCalls
  /\ mq.pc = "idle"
  /\ Commit(FlushLoop([Cur EXCEPT !.calls = @ + 1]))

QSendFnSettles ==
  \E ok \in BOOLEAN :
    /\ mq.pc = "send"
    /\ Commit(FlushResume(Cur, ok))

QRemoveById ==
  /\ calls < MaxQueueCalls
  /\ \E i \in 1..Len(queue) :
       Commit([Cur EXCEPT !.calls = @ + 1,
                          !.queue = SubSeq(@, 1, i - 1) \o SubSeq(@, i + 1, Len(@))])

QClear ==
  /\ calls < MaxQueueCalls
  /\ Commit(QueueClear([Cur EXCEPT !.calls = @ + 1]))

QueueConfigs ==
  [mode : {"queue"}, reconnect : {FALSE}, heartbeat : {FALSE}, queue : {TRUE},
   listener : {"none"},
   maxAttempts : {1}, maxSize : 1..MaxSizeBound,
   delay : {100}, maxDelay : {1000}, factor : {2},
   interval : {0}, timeout : {0}, payloads : {"json"},
   emitter : {"core"}]

InitQueue == \E c \in QueueConfigs : InitWith(c)

NextQueue ==
  \/ QEnqueue
  \/ QDequeue
  \/ QDequeueBatch
  \/ QFlush
  \/ QSendFnSettles
  \/ QRemoveById
  \/ QClear

SpecQueue == InitQueue /\ [][NextQueue]_vars

(* ---------------------------------------------------------------------- *)
(* The AckManager on its own.  The sendFn is the consumer's: each call     *)
(* returns or throws.                                                      *)
(* ---------------------------------------------------------------------- *)
MaxAckCalls == 3

(* AckManager.send with options.retries = r *)
AckSend(m, r, t) ==
  LET id == m.ack.n + 1 IN
  [m EXCEPT !.ack.n = id,
            !.ack.msg[id] = [NoPending EXCEPT !.live = TRUE, !.timer = TRUE,
                                              !.armed = TRUE, !.max = r,
                                              !.timeout = t],
            !.ev = Append(@, <<"ack-send", id>>)]

HandleFinalTimeout(m, id) ==
  [m EXCEPT !.ack.msg[id].armed = IF m.ack.msg[id].timer THEN FALSE ELSE @,
            !.ack.msg[id].timer = FALSE,
            !.ack.msg[id].live = FALSE,
            !.ack.msg[id].terr =
               Append(@, OrElse(m.ack.msg[id].timeout, AckDefaultTimeout)),
            !.ack.msg[id].cb = Append(@, "timeout")]

(* handleTimeout; ok: the sendFn call, if one is made, returns *)
HandleTimeout(m, id, ok) ==
  IF ~m.ack.msg[id].live THEN m
  ELSE LET m1 == [m EXCEPT !.ack.msg[id].retries = @ + 1] IN
       IF m1.ack.msg[id].retries <= m1.ack.msg[id].max /\ m1.ack.sendFn
         THEN IF ok
                THEN [m1 EXCEPT !.ack.msg[id].sent = @ + 1,
                                !.ack.msg[id].timer = TRUE,
                                !.ack.msg[id].armed = TRUE]
                ELSE HandleFinalTimeout([m1 EXCEPT !.ack.msg[id].threw = TRUE], id)
         ELSE HandleFinalTimeout(
                [m1 EXCEPT !.ack.msg[id].threw = @ \/ ~m1.ack.sendFn], id)

(* The entry leaves the pending list and its timer is cleared *)
AckRemove(a, id) ==
  [a EXCEPT !.msg[id].armed = IF a.msg[id].timer THEN FALSE ELSE @,
            !.msg[id].timer = FALSE,
            !.msg[id].live = FALSE,
            !.msg[id].gone = <<a.msg[id].cb, a.msg[id].sent>>]

HandleAckKeepsEntry(m, id) ==
  IF ~m.ack.msg[id].live
    THEN [m EXCEPT !.ev = Append(@, <<"handleAck", id, FALSE, FALSE>>)]
    ELSE [m EXCEPT !.ack.msg[id].cb = Append(@, "ack"),
                   !.ev = Append(@, <<"handleAck", id, TRUE, TRUE>>)]

HandleAck(m, id) ==
  IF ~m.ack.msg[id].live
    THEN [m EXCEPT !.ev = Append(@, <<"handleAck", id, FALSE, FALSE>>)]
    ELSE [m EXCEPT !.ack = [AckRemove(m.ack, id) EXCEPT
                              !.msg[id].cb = Append(@, "ack"),
                              !.msg[id].gone = <<Append(m.ack.msg[id].cb, "ack"),
                                                 m.ack.msg[id].sent>>],
                   !.ev = Append(@, <<"handleAck", id, TRUE, TRUE>>)]

AckCancel(m, id) ==
  IF ~m.ack.msg[id].live
    THEN [m EXCEPT !.ev = Append(@, <<"cancel", id, FALSE, FALSE>>)]
    ELSE [m EXCEPT !.ack = AckRemove(m.ack, id),
                   !.ev = Append(@, <<"cancel", id, TRUE, TRUE>>)]

RECURSIVE AckRemoveAll(_, _)
AckRemoveAll(a, ids) ==
  IF ids = {} THEN a
  ELSE LET id == CHOOSE i \in ids : TRUE IN
       AckRemoveAll(IF a.msg[id].live THEN AckRemove(a, id) ELSE a, ids \ {id})

AckCancelAll(m) == [m EXCEPT !.ack = AckRemoveAll(m.ack, AckIds)]

AmSetSendFunction ==
  /\ ~ack.sendFn
  /\ Commit([Cur EXCEPT !.ack.sendFn = TRUE])

AmSend ==
  /\ ack.n < MaxAckMessages
  /\ \E r \in 0..MaxRetries, t \in Timeouts : Commit(AckSend(Cur, r, t))

AmTimerFires ==
  \E id \in AckIds, ok \in BOOLEAN :
    /\ ack.msg[id].armed
    /\ Commit(HandleTimeout([Cur EXCEPT !.ack.msg[id].armed = FALSE,
                                        !.ev = <<<<"ack-timer", id, ack.msg[id].live>>>>],
                             id, ok))

AmHandleAck ==
  /\ calls < MaxAckCalls
  /\ \E id \in AckIds :
       LET m0 == [Cur EXCEPT !.calls = @ + 1]
           m1 == HandleAck(m0, id)
       IN Commit([m1 EXCEPT !.ev = Append(@, <<"ack-changed", m1.ack # ack>>)])

AmCancel ==
  /\ calls < MaxAckCalls
  /\ \E id \in AckIds : Commit(AckCancel([Cur EXCEPT !.calls = @ + 1], id))

AmCancelAll ==
  /\ calls < MaxAckCalls
  /\ Commit(AckCancelAll([Cur EXCEPT !.calls = @ + 1]))

InitAck == \E c \in ManagerConfigs : InitWith(c)

NextAck ==
  \/ AmSetSendFunction
  \/ AmSend
  \/ AmTimerFires
  \/ AmHandleAck
  \/ AmCancel
  \/ AmCancelAll

SpecAck == InitAck /\ [][NextAck]_vars

(* ---------------------------------------------------------------------- *)
(* The RpcManager on its own.  A resolve or reject call on a completion    *)
(* is recorded in calls; the completion is settled by the first of them.   *)
(* ---------------------------------------------------------------------- *)
MaxRpcCalls == 3

ResponseData == {1, 2}

Reasons == {"cancelled", "connection lost"}

RpcRequest(m, timeout) ==
  LET id == m.rpc.n + 1 IN
  [m EXCEPT !.rpc.n = id,
            !.rpc.req[id] = [NoRequest EXCEPT !.live = TRUE, !.timer = TRUE,
                                              !.armed = TRUE,
                                              !.timeoutMs =
                                                 OrElse(timeout, RpcDefaultTimeout)],
            !.ev = Append(@, <<"request", id>>)]

RpcSettleKeepsEntry(r, id, call) ==
  [r EXCEPT !.req[id].calls = Append(@, call)]

(* The entry leaves pendingRequests, its timer is cleared and call is made *)
(* on its completion.                                                      *)
RpcSettle(r, id, call) ==
  [r EXCEPT !.req[id].armed = IF r.req[id].timer THEN FALSE ELSE @,
            !.req[id].timer = FALSE,
            !.req[id].live = FALSE,
            !.req[id].calls = Append(@, call)]

HandleResponse(m, id, data, isError) ==
  IF ~m.rpc.req[id].live
    THEN [m EXCEPT !.ev = Append(@, <<"rpc-op", id, FALSE, FALSE, <<>>>>)]
    ELSE LET call == IF isError THEN <<"reject", "error">> ELSE <<"resolve", data>> IN
         [m EXCEPT !.rpc = RpcSettle(m.rpc, id, call),
                   !.ev = Append(@, <<"rpc-op", id, TRUE, TRUE, call>>)]

RpcHandleTimeout(m, id) ==
  IF ~m.rpc.req[id].live
    THEN [m EXCEPT !.ev = Append(@, <<"rpc-op", id, FALSE, FALSE, <<>>>>)]
    ELSE [m EXCEPT !.rpc = [RpcSettle(m.rpc, id, <<"reject", "timeout">>) EXCEPT
                              !.req[id].terr = Append(@, RpcDefaultTimeout)],
                   !.ev = Append(@, <<"rpc-op", id, TRUE, FALSE, <<"reject", "timeout">>>>)]

RpcCancel(m, id, reason) ==
  IF ~m.rpc.req[id].live
    THEN [m EXCEPT !.ev = Append(@, <<"rpc-op", id, FALSE, FALSE, <<>>>>)]
    ELSE [m EXCEPT !.rpc = RpcSettle(m.rpc, id, <<"reject", reason>>),
                   !.ev = Append(@, <<"rpc-op", id, TRUE, TRUE, <<"reject", reason>>>>)]

RECURSIVE RpcCancelEach(_, _, _)
RpcCancelEach(m, ids, reason) ==
  IF ids = {} THEN m
  ELSE LET id == CHOOSE i \in ids : TRUE IN
       RpcCancelEach(
         IF m.rpc.req[id].live
           THEN [m EXCEPT !.rpc = RpcSettle(m.rpc, id, <<"reject", reason>>),
                          !.ev = Append(@, <<"rpc-op", id, TRUE, FALSE,
                                             <<"reject", reason>>>>)]
           ELSE m,
         ids \ {id}, reason)

RpcCancelAll(m, reason) == RpcCancelEach(m, RpcIds, reason)

(* The step's log ends with whether the step changed the manager *)
RpcCommit(m) == Commit([m EXCEPT !.ev = Append(@, <<"rpc-changed", m.rpc # rpc>>)])

RqRequest ==
  /\ rpc.n < MaxRequests
  /\ \E timeout \in Timeouts : RpcCommit(RpcRequest(Cur, timeout))

RqHandleResponse ==
  /\ calls < MaxRpcCalls
  /\ \E id \in RpcIds, data \in ResponseData, isError \in BOOLEAN :
       RpcCommit(HandleResponse([Cur EXCEPT !.calls = @ + 1], id, data, isError))

RqTimerFires ==
  \E id \in RpcIds :
    /\ rpc.req[id].armed
    /\ RpcCommit(RpcHandleTimeout([Cur EXCEPT !.rpc.req[id].armed = FALSE], id))

RqCancel ==
  /\ calls < MaxRpcCalls
  /\ \E id \in RpcIds, reason \in Reasons :
       RpcCommit(RpcCancel([Cur EXCEPT !.calls = @ + 1], id, reason))

RqCancelAll ==
  /\ calls < MaxRpcCalls
  /\ \E reason \in Reasons :
       RpcCommit(RpcCancelAll([Cur EXCEPT !.calls = @ + 1], reason))

InitRpc == \E c \in ManagerConfigs : InitWith(c)

NextRpc ==
  \/ RqRequest
  \/ RqHandleResponse
  \/ RqTimerFires
  \/ RqCancel
  \/ RqCancelAll

SpecRpc == InitRpc /\ [][NextRpc]_vars

(* ---------------------------------------------------------------------- *)
(* The EventEmitter on its own, in its two implementations: "core"         *)
(* (src/core/event-emitter.ts) and "part_013".  One event name.  A         *)
(* listener, when invoked, returns, throws, emits the event again (the     *)
(* first time it runs in an emission), or calls on or off for a listener.  *)
(* ---------------------------------------------------------------------- *)
MaxEmitterCalls == 4

Thresholds == {0, 1, 2}

Behaviours ==
  {<<"return", 0>>, <<"throw", 0>>, <<"emit", 0>>}
    \cup {<<"on", t>> : t \in Plain} \cup {<<"off", t>> : t \in Plain}

Live(s) == SelectSeq(s, LAMBDA x : x # 0)

EmitterOn(e, x) ==
  LET e1 == IF e.cur = 0
              THEN [e EXCEPT !.sets = Append(@, <<>>), !.cur = Len(e.sets) + 1]
              ELSE e
      s == e1.sets[e1.cur]
      e2 == IF \E i \in 1..Len(s) : s[i] = x THEN e1
            ELSE [e1 EXCEPT !.sets[e1.cur] = Append(@, x)]
      n == Len(Live(e2.sets[e2.cur]))
      e3 == [e2 EXCEPT !.exceeded = @ \/ (e2.max > 0 /\ n > e2.max)]
  IN IF e.impl = "part_013" /\ n > e3.max /\ ~e3.warned
       THEN [e3 EXCEPT !.warnings = @ + 1, !.warned = TRUE]
       ELSE e3

EmitterOff(e, x) ==
  IF e.cur = 0 THEN e
  ELSE LET s == e.sets[e.cur]
           e1 == [e EXCEPT !.sets[e.cur] =
                    [i \in 1..Len(s) |-> IF s[i] = x THEN 0 ELSE s[i]]]
       IN IF Live(e1.sets[e1.cur]) = <<>>
            THEN [e1 EXCEPT !.cur = 0, !.warned = FALSE]
            ELSE e1

EmitterOffAll(e) == [e EXCEPT !.cur = 0, !.warned = FALSE]

RECURSIVE EmitterEmit(_, _, _)
RECURSIVE IterCopy(_, _, _, _)
RECURSIVE IterLive(_, _, _, _, _)

(* The consumer's listener x runs *)
Body(e, x, beh, depth) ==
  LET e1 == [e EXCEPT !.log = Append(@, <<depth, x>>),
                      !.inv = IF x \in Wrappers THEN [@ EXCEPT ![x] = @ + 1] ELSE @]
      b == beh[x]
  IN CASE b[1] = "return" -> [e |-> e1, threw |-> FALSE]
       [] b[1] = "throw" -> [e |-> e1, threw |-> TRUE]
       [] b[1] = "emit" ->
            [e |-> IF x \in e1.ran THEN e1
                   ELSE EmitterEmit([e1 EXCEPT !.ran = @ \cup {x}], beh, depth + 1),
             threw |-> FALSE]
       [] b[1] = "on" -> [e |-> EmitterOn(e1, b[2]), threw |-> FALSE]
       [] b[1] = "off" -> [e |-> EmitterOff(e1, b[2]), threw |-> FALSE]

(* emit calls the function x of its list inside try/catch: a listener      *)
(* registered with on, or the onceWrapper of a listener                    *)
Invoke(e, x, beh, depth) ==
  IF x \in Plain THEN Body(e, x, beh, depth).e
  ELSE IF e.impl = "part_013" THEN Body(EmitterOff(e, x), x, beh, depth).e
  ELSE LET r == Body(e, x, beh, depth) IN
       IF r.threw THEN r.e ELSE EmitterOff(r.e, x)

IterCopy(e, c, beh, depth) ==
  IF c = <<>> THEN e
  ELSE IterCopy(Invoke(e, Head(c), beh, depth), Tail(c), beh, depth)

IterLive(e, g, i, beh, depth) ==
  IF i > Len(e.sets[g]) THEN e
  ELSE IF e.sets[g][i] = 0 THEN IterLive(e, g, i + 1, beh, depth)
  ELSE IterLive(Invoke(e, e.sets[g][i], beh, depth), g, i + 1, beh, depth)

EmitterEmit(e, beh, depth) ==
  IF e.cur = 0 THEN e
  ELSE LET s == e.sets[e.cur]
           needsCopy == \E i \in 1..Len(s) : s[i] \in Wrappers
       IN IF e.impl = "core" \/ needsCopy
            THEN IterCopy(e, Live(s), beh, depth)
            ELSE IterLive(e, e.cur, 1, beh, depth)

SetMaxListeners(e, n) ==
  [e EXCEPT !.max = n, !.warned = FALSE, !.warnings = 0, !.exceeded = FALSE]

(* The registered listeners, in the order of the Set *)
Registered(e) == IF e.cur = 0 THEN <<>> ELSE Live(e.sets[e.cur])

(* The listeners an emit called itself, not those of an emit inside it *)
Delivered(e) ==
  LET top == SelectSeq(e.log, LAMBDA l : l[1] = 1) IN
  [i \in 1..Len(top) |-> top[i][2]]

(* Between two calls only the Set the map holds is left *)
EmitterCommit(e, entry) ==
  Commit([Cur EXCEPT !.calls = @ + 1,
                     !.em = [e EXCEPT !.sets = IF e.cur = 0 THEN <<>>
                                               ELSE <<Registered(e)>>,
                                      !.cur = IF e.cur = 0 THEN 0 ELSE 1,
                                      !.log = <<>>, !.ran = {}],
                     !.ev = <<entry>>])

EeOn ==
  /\ calls < MaxEmitterCalls
  /\ \E x \in Plain : EmitterCommit(EmitterOn(em, x), <<"on", x>>)

EeOnce ==
  /\ calls < MaxEmitterCalls
  /\ em.nw < MaxWrappers
  /\ LET w == MaxPlain + em.nw + 1 IN
     EmitterCommit(EmitterOn([em EXCEPT !.nw = @ + 1], w), <<"once", w>>)

EeOff ==
  /\ calls < MaxEmitterCalls
  /\ \E x \in Plain : EmitterCommit(EmitterOff(em, x), <<"off", x>>)

EeOffAll ==
  /\ calls < MaxEmitterCalls
  /\ EmitterCommit(EmitterOffAll(em), <<"off">>)

EeEmit ==
  /\ calls < MaxEmitterCalls
  /\ \E beh \in [ListenerIds -> Behaviours] :
       LET e == EmitterEmit(em, beh, 1) IN
       EmitterCommit(e, <<"emit", Registered(em), Delivered(e),
                          \E i \in 1..Len(Registered(em)) :
                             Registered(em)[i] \in Wrappers>>)

EeSetMaxListeners ==
  /\ calls < MaxEmitterCalls
  /\ em.impl = "part_013"
  /\ \E n \in Thresholds : EmitterCommit(SetMaxListeners(em, n), <<"setMaxListeners", n>>)

EmitterConfigs ==
  [mode : {"emitter"}, reconnect : {FALSE}, heartbeat : {FALSE}, queue : {FALSE},
   listener : {"none"},
   maxAttempts : {1}, maxSize : {DefaultMaxSize},
   delay : {100}, maxDelay : {1000}, factor : {2},
   interval : {0}, timeout : {0}, payloads : {"json"},
   emitter : {"core", "part_013"}]

InitEmitter == \E c \in EmitterConfigs : InitWith(c)

NextEmitter ==
  \/ EeOn
  \/ EeOnce
  \/ EeOff
  \/ EeOffAll
  \/ EeEmit
  \/ EeSetMaxListeners

SpecEmitter == InitEmitter /\ [][NextEmitter]_vars

(* ---------------------------------------------------------------------- *)
(* The MessageRouter on its own.  A message is its type and its channel    *)
(* ("none": the field is missing); a handler is one of the consumer's      *)
(* functions and returns or throws when its call settles.                  *)
(* ---------------------------------------------------------------------- *)
MaxRouterCalls == 3

Patterns == {"a", "*"}

Types == {"none", "a"}

Channels == {"none", "c"}

HandlerIds == {1, 2}

Priorities == {0, 1}

(* matchPattern for a type without dots: the pattern itself, or one star *)
MatchPattern(type, pattern) == type = pattern \/ pattern = "*"

RECURSIVE InsertByPriority(_, _)
InsertByPriority(s, r) ==
  IF s = <<>> THEN <<r>>
  ELSE IF Head(s).priority < r.priority THEN <<r>> \o s
  ELSE <<Head(s)>> \o InsertByPriority(Tail(s), r)

(* on and once: push, then the stable sort by descending priority *)
AddRoute(r, pattern, handler, priority, once) ==
  LET id == r.n + 1 IN
  [r EXCEPT !.n = id,
            !.once = IF once THEN @ \cup {id} ELSE @,
            !.routes = InsertByPriority(@, [id |-> id, pattern |-> pattern,
                                             handler |-> handler,
                                             priority |-> priority, once |-> once])]

RouterOff(r, pattern, handler) ==
  [r EXCEPT !.routes = SelectSeq(@, LAMBDA x :
                          ~(x.pattern = pattern /\ x.handler = handler))]

RouterOffPattern(r, pattern) ==
  [r EXCEPT !.routes = SelectSeq(@, LAMBDA x : x.pattern # pattern)]

RouteIdsOf(s) == {s[i].id : i \in 1..Len(s)}

(* dispatch up to its first await or its return *)
DispatchStart(m, k, type, channel) ==
  LET r == m.rt
      matched == SelectSeq(r.routes, LAMBDA x : MatchPattern(type, x.pattern))
      subscribed == channel \in r.subscriptions
      entry(what) == <<"dispatch", channel, subscribed, what>>
  IN IF type = "none"
       THEN IF r.defaultHandler
              THEN [m EXCEPT !.rt.d[k].pc = "default",
                             !.ev = Append(@, entry("default"))]
              ELSE [m EXCEPT !.ev = Append(@, entry("false"))]
     ELSE IF channel # "none" /\ ~subscribed
       THEN [m EXCEPT !.ev = Append(@, entry("false"))]
     ELSE IF matched = <<>>
       THEN IF r.defaultHandler
              THEN [m EXCEPT !.rt.d[k].pc = "default",
                             !.ev = Append(@, entry("default"))]
              ELSE [m EXCEPT !.ev = Append(@, entry("false"))]
     ELSE [m EXCEPT !.rt.d[k] = [pc |-> "route", matched |-> matched, i |-> 1,
                                 handled |-> FALSE],
                    !.rt.inv[matched[1].id] = @ + 1,
                    !.ev = Append(@, entry("route"))]

(* dispatch from the await of a handler that returned (ok) or threw, up to *)
(* its next await or its return                                            *)
DispatchResume(m, k, ok) ==
  LET f == m.rt.d[k] IN
  IF f.pc = "default"
    THEN [m EXCEPT !.rt.d[k] = NoDispatch,
                   !.ev = Append(@, <<"dispatch-settled",
                                      IF ok THEN "true" ELSE "rejected">>)]
  ELSE LET route == f.matched[f.i]
           m1 == [m EXCEPT !.rt.fin[route.id] = TRUE]
           m2 == IF ok /\ route.once
                   THEN [m1 EXCEPT
                           !.rt = RouterOff(m1.rt, route.pattern, route.handler),
                           !.ev = Append(@, <<"once-removed", route.id,
                                    RouteIdsOf(m1.rt.routes) \
                                      RouteIdsOf(RouterOff(m1.rt, route.pattern,
                                                           route.handler).routes)>>)]
                   ELSE m1
           handled == f.handled \/ ok
       IN IF f.i < Len(f.matched)
            THEN [m2 EXCEPT !.rt.d[k].i = f.i + 1,
                            !.rt.d[k].handled = handled,
                            !.rt.inv[f.matched[f.i + 1].id] = @ + 1]
            ELSE [m2 EXCEPT !.rt.d[k] = NoDispatch,
                            !.ev = Append(@, <<"dispatch-settled",
                                               IF handled THEN "true" ELSE "false">>)]

RouterCall(r) == Commit([Cur EXCEPT !.calls = @ + 1, !.rt = r])

MrOn ==
  /\ calls < MaxRouterCalls
  /\ rt.n < MaxRoutes
  /\ \E pattern \in Patterns, handler \in HandlerIds, priority \in Priorities :
       RouterCall(AddRoute(rt, pattern, handler, priority, FALSE))

MrOnce ==
  /\ calls < MaxRouterCalls
  /\ rt.n < MaxRoutes
  /\ \E pattern \in Patterns, handler \in HandlerIds, priority \in Priorities :
       RouterCall(AddRoute(rt, pattern, handler, priority, TRUE))

MrOff ==
  /\ calls < MaxRouterCalls
  /\ \E pattern \in Patterns :
       \/ RouterCall(RouterOffPattern(rt, pattern))
       \/ \E handler \in HandlerIds : RouterCall(RouterOff(rt, pattern, handler))

MrSetDefaultHandler ==
  /\ calls < MaxRouterCalls
  /\ RouterCall([rt EXCEPT !.defaultHandler = ~@])

MrSubscribe ==
  /\ calls < MaxRouterCalls
  /\ \E c \in Channels \ {"none"} :
       /\ c \notin rt.subscriptions
       /\ RouterCall([rt EXCEPT !.subscriptions = @ \cup {c}])

MrUnsubscribe ==
  /\ calls < MaxRouterCalls
  /\ \E c \in rt.subscriptions : RouterCall([rt EXCEPT !.subscriptions = @ \ {c}])

MrDispatch ==
  /\ sends < MaxDispatches
  /\ \E type \in Types, channel \in Channels :
       LET k == CHOOSE i \in DispatchIds : rt.d[i].pc = "-" IN
       Commit(DispatchStart([Cur EXCEPT !.sends = @ + 1], k, type, channel))

MrHandlerSettles ==
  \E k \in DispatchIds, ok \in BOOLEAN :
    /\ rt.d[k].pc # "-"
    /\ Commit(DispatchResume(Cur, k, ok))

InitRouter == \E c \in ManagerConfigs : InitWith(c)

NextRouter ==
  \/ MrOn
  \/ MrOnce
  \/ MrOff
  \/ MrSetDefaultHandler
  \/ MrSubscribe
  \/ MrUnsubscribe
  \/ MrDispatch
  \/ MrHandlerSettles

SpecRouter == InitRouter /\ [][NextRouter]_vars

(* ---------------------------------------------------------------------- *)
(* The MessageDeduplicator on its own, with the default strategy 'both'.   *)
(* Messages 1 and 2 carry the same id and differ in content, message 3     *)
(* carries no id.                                                          *)
(* ---------------------------------------------------------------------- *)
MaxClock == 7

DedupMessages == {1, 2, 3}

ExtractKeys(msg) ==
  CASE msg = 1 -> <<"id:1", "hash:a">>
    [] msg = 2 -> <<"id:1", "hash:b">>
    [] msg = 3 -> <<"hash:c">>

RecordCount(d) == Cardinality({k \in DedupKeys : d.rec[k] # -1})

(* removeOldest: the first record, in the order of the Map, with the       *)
(* smallest timestamp; the Map here holds fewer than DedupMaxSize records  *)
RemoveOldest(d) ==
  LET have == {k \in DedupKeys : d.rec[k] # -1} IN
  IF have = {} THEN d
  ELSE LET k == CHOOSE x \in have : \A y \in have : d.rec[x] <= d.rec[y]
       IN [d EXCEPT !.rec[k] = -1]

RECURSIVE MarkKeys(_, _)
MarkKeys(d, keys) ==
  IF keys = <<>> THEN d
  ELSE LET d1 == IF RecordCount(d) >= DedupMaxSize THEN RemoveOldest(d) ELSE d
       IN MarkKeys([d1 EXCEPT !.rec[Head(keys)] = d.now,
                              !.last[Head(keys)] = d.now], Tail(keys))

MarkProcessed(d, msg) ==
  [MarkKeys(d, ExtractKeys(msg)) EXCEPT !.marked = @ \cup {msg}, !.prev = msg]

IsDuplicate(d, msg) ==
  \E i \in 1..Len(ExtractKeys(msg)) : d.rec[ExtractKeys(msg)[i]] # -1

Cleanup(d) ==
  [d EXCEPT !.rec = [k \in DedupKeys |->
                       IF d.rec[k] # -1 /\ d.now - d.rec[k] > WindowSize
                         THEN -1 ELSE d.rec[k]]]

(* More than windowSize has passed since msg and every message that shares *)
(* a key with it were marked last                                          *)
Expired(d, msg) ==
  /\ msg \in d.marked
  /\ \A i \in 1..Len(ExtractKeys(msg)) :
       LET k == ExtractKeys(msg)[i] IN
       d.last[k] # -1 => d.now - d.last[k] > WindowSize

DdMarkProcessed ==
  \E msg \in DedupMessages :
    Commit([Cur EXCEPT !.dd = MarkProcessed(dd, msg),
                       !.ev = <<<<"markProcessed", msg>>>>])

DdIsDuplicate ==
  \E msg \in DedupMessages :
    Commit([Cur EXCEPT !.dd.prev = 0,
                       !.ev = <<<<"isDuplicate", msg, IsDuplicate(dd, msg),
                                  dd.prev = msg, Expired(dd, msg)>>>>])

(* The clock moves on by a quarter of the window, up to the next timer *)
DdTick ==
  /\ dd.now < MaxClock
  /\ dd.now < dd.due
  /\ Commit([Cur EXCEPT !.dd.now = @ + 1, !.dd.prev = 0])

DdCleanupTimer ==
  /\ dd.now = dd.due
  /\ Commit([Cur EXCEPT !.dd = [Cleanup(dd) EXCEPT !.due = @ + WindowSize \div 2,
                                                    !.prev = 0]])

InitDedup == \E c \in ManagerConfigs : InitWith(c)

NextDedup ==
  \/ DdMarkProcessed
  \/ DdIsDuplicate
  \/ DdTick
  \/ DdCleanupTimer

SpecDedup == InitDedup /\ [][NextDedup]_vars

(* ---------------------------------------------------------------------- *)
(* The BatchSender on its own, enabled and with its send function set.     *)
(* Messages are numbered in the order of add; time moves in ticks.         *)
(* ---------------------------------------------------------------------- *)
MaxBatchAge == 4

MaxFlushCalls == 1

MessageSizes == {1, 3}

RECURSIVE CountHanded(_, _)
CountHanded(h, s) ==
  IF s = <<>> THEN h ELSE CountHanded([h EXCEPT ![Head(s)] = @ + 1], Tail(s))

(* The messages of the buffer that were in no sendFn call yet *)
Waiting(b) == {b.buffer[i] : i \in 1..Len(b.buffer)} \cap {x \in 1..b.n : b.handed[x] = 0}

(* flush; ok: the sendFn call, if one is made, returns *)
BatchFlush(b, ok) ==
  LET b1 == [b EXCEPT !.flushTimer = -1] IN
  IF b1.buffer = <<>> THEN b1
  ELSE LET b2 == [b1 EXCEPT !.handed = CountHanded(@, b1.buffer),
                            !.out = @ \o b1.buffer]
       IN IF ok THEN [b2 EXCEPT !.buffer = <<>>, !.bufferBytes = 0, !.age = 0]
          ELSE [b2 EXCEPT !.threw = TRUE, !.age = 0]

BatchAdd(b, size, ok) ==
  LET msg == b.n + 1
      b1 == [b EXCEPT !.n = msg,
                      !.buffer = Append(@, msg),
                      !.bufferBytes = @ + size,
                      !.age = IF Waiting(b) = {} THEN 0 ELSE @]
  IN IF Len(b1.buffer) >= BatchMaxSize \/ b1.bufferBytes >= BatchMaxBytes
       THEN BatchFlush(b1, ok)
     ELSE IF b1.flushTimer = -1 THEN [b1 EXCEPT !.flushTimer = BatchMaxWait]
     ELSE b1

BaAdd ==
  /\ bs.n < MaxBatchAdds
  /\ \E size \in MessageSizes, ok \in BOOLEAN :
       Commit([Cur EXCEPT !.bs = BatchAdd(bs, size, ok)])

BaFlush ==
  /\ calls < MaxFlushCalls
  /\ \E ok \in BOOLEAN :
       Commit([Cur EXCEPT !.calls = @ + 1, !.bs = BatchFlush(bs, ok)])

BaFlushTimer ==
  /\ bs.flushTimer = 0
  /\ \E ok \in BOOLEAN : Commit([Cur EXCEPT !.bs = BatchFlush(bs, ok)])

BaTick ==
  /\ bs.flushTimer # 0
  /\ bs.age < MaxBatchAge
  /\ Commit([Cur EXCEPT !.bs.flushTimer = IF @ > 0 THEN @ - 1 ELSE @,
                        !.bs.age = IF Waiting(bs) # {} THEN @ + 1 ELSE @])

InitBatch == \E c \in ManagerConfigs : InitWith(c)

NextBatch ==
  \/ BaAdd
  \/ BaFlush
  \/ BaFlushTimer
  \/ BaTick

SpecBatch == InitBatch /\ [][NextBatch]_vars

(* ---------------------------------------------------------------------- *)
(* The MiddlewareManager on its own.  A middleware is known by what it     *)
(* does: pass = its work, `await next()`, its work after; skip = sets      *)
(* context.shouldSkip and returns; skipNext = sets it and awaits next();   *)
(* skipAfter = awaits next() and sets it afterwards; stop = returns        *)
(* without next(); throw = throws.  A step is the run of one middleware up *)
(* to its `await next()` or from there to its return; the consumer may     *)
(* register middlewares or clear the manager between two steps.            *)
(* ---------------------------------------------------------------------- *)
MaxMiddlewareCalls == 5

MwBehaviours == {"pass", "skip", "skipNext", "skipAfter", "stop", "throw"}

(* finalAction; the log entry carries the length of the array then *)
FinalAction(r) == [r EXCEPT !.log = Append(@, <<"final", Len(r.list)>>)]

(* A call of next() returned: its caller goes on, the middleware that      *)
(* awaited it or executeChain itself                                       *)
MwReturn(r) ==
  IF r.stack = <<>> THEN [r EXCEPT !.on = FALSE, !.res = "ok"]
  ELSE [r EXCEPT !.stack[Len(r.stack)].pc = "post"]

(* next() without the test of context.shouldSkip *)
MwNextIgnoringSkip(r) ==
  IF r.index >= Len(r.list) THEN MwReturn(FinalAction(r))
  ELSE [r EXCEPT !.index = @ + 1,
                 !.stack = Append(@, [i |-> r.index + 1, pc |-> "pre"])]

(* The closure next of executeChain, up to the call of the middleware *)
MwNext(r) ==
  IF r.skip THEN MwReturn(r)
  ELSE IF r.index >= Len(r.list) THEN MwReturn(FinalAction(r))
  ELSE [r EXCEPT !.index = @ + 1,
                 !.stack = Append(@, [i |-> r.index + 1, pc |-> "pre"])]

SetSkip(r) ==
  [r EXCEPT !.skip = TRUE, !.skipAt = IF r.skip THEN @ ELSE Len(r.log)]

(* The innermost middleware returned: the next() that called it returns *)
MwLeave(r) ==
  LET top == r.stack[Len(r.stack)] IN
  MwReturn([r EXCEPT !.log = Append(@, <<"post", top.i>>),
                     !.stack = SubSeq(@, 1, Len(@) - 1)])

(* The innermost middleware runs on to its next suspension *)
MwRun(r) ==
  LET top == r.stack[Len(r.stack)]
      b == r.list[top.i]
  IN IF top.pc = "pre"
       THEN LET r1 == [r EXCEPT !.log = Append(@, <<"pre", top.i>>)]
                r2 == IF b \in {"skip", "skipNext"} THEN SetSkip(r1) ELSE r1
            IN IF b = "throw"
                 THEN [r2 EXCEPT !.log = Append(@, <<"throw", top.i>>),
                                 !.stack = <<>>, !.on = FALSE, !.res = "error"]
               ELSE IF b \in {"skip", "stop"} THEN MwLeave(r2)
               ELSE MwNext([r2 EXCEPT !.stack[Len(r.stack)].pc = "await"])
       ELSE MwLeave(IF b = "skipAfter" THEN SetSkip(r) ELSE r)

ExecuteChain(middlewares, dir) ==
  LET r == [NoRun EXCEPT !.on = TRUE, !.dir = dir, !.list = middlewares,
                         !.shared = TRUE]
  IN IF Len(middlewares) = 0 THEN [FinalAction(r) EXCEPT !.on = FALSE, !.res = "ok"]
     ELSE MwNext(r)

(* Array.push on an array that a suspended executeChain may hold *)
MwPush(m, dir, b) ==
  LET m1 == IF dir = "send" THEN [m EXCEPT !.sendMiddlewares = Append(@, b)]
            ELSE [m EXCEPT !.receiveMiddlewares = Append(@, b)]
  IN IF m.run.on /\ m.run.shared /\ m.run.dir = dir
       THEN [m1 EXCEPT !.run.list = Append(@, b)]
       ELSE m1

MwCanUse(dirs) ==
  /\ mw.n < MaxMiddlewareCalls
  /\ "send" \in dirs => Len(mw.sendMiddlewares) < MaxMiddlewares
  /\ "receive" \in dirs => Len(mw.receiveMiddlewares) < MaxMiddlewares
  /\ mw.run.on /\ mw.run.shared /\ mw.run.dir \in dirs => Len(mw.run.list) < MaxMiddlewares

MwUseSend ==
  /\ MwCanUse({"send"})
  /\ \E b \in MwBehaviours :
       Commit([Cur EXCEPT !.mw = MwPush([mw EXCEPT !.n = @ + 1], "send", b)])

MwUseReceive ==
  /\ MwCanUse({"receive"})
  /\ \E b \in MwBehaviours :
       Commit([Cur EXCEPT !.mw = MwPush([mw EXCEPT !.n = @ + 1], "receive", b)])

MwUse ==
  /\ MwCanUse({"send", "receive"})
  /\ \E b \in MwBehaviours :
       Commit([Cur EXCEPT !.mw = MwPush(MwPush([mw EXCEPT !.n = @ + 1], "send", b),
                                        "receive", b)])

MwClear ==
  /\ mw.n < MaxMiddlewareCalls
  /\ Commit([Cur EXCEPT !.mw = [mw EXCEPT !.n = @ + 1, !.sendMiddlewares = <<>>,
                                          !.receiveMiddlewares = <<>>,
                                          !.run.shared = FALSE]])

MwExecuteSend ==
  /\ mw.n < MaxMiddlewareCalls
  /\ ~mw.run.on
  /\ Commit([Cur EXCEPT !.mw = [mw EXCEPT !.n = @ + 1,
                                          !.run = ExecuteChain(mw.sendMiddlewares, "send")]])

MwExecuteReceive ==
  /\ mw.n < MaxMiddlewareCalls
  /\ ~mw.run.on
  /\ Commit([Cur EXCEPT !.mw = [mw EXCEPT !.n = @ + 1,
                                          !.run = ExecuteChain(mw.receiveMiddlewares,
                                                               "receive")]])

MwContinues ==
  /\ mw.run.on
  /\ Commit([Cur EXCEPT !.mw.run = MwRun(mw.run)])

InitMiddleware == \E c \in EmitterConfigs : InitWith(c)

NextMiddleware ==
  \/ MwUseSend
  \/ MwUseReceive
  \/ MwUse
  \/ MwClear
  \/ MwExecuteSend
  \/ MwExecuteReceive
  \/ MwContinues

SpecMiddleware == InitMiddleware /\ [][NextMiddleware]_vars

TypeOK ==
  /\ state \in ConnectionState
  /\ isDestroyed \in BOOLEAN
  /\ adapter \in 0..Len(adapters)
  /\ Len(sockets) <= MaxSockets
  /\ attempts \in 0..(MaxAttemptsBound + 1)

(* ---------------------------------------------------------------------- *)
(* Properties                                                              *)
(* ---------------------------------------------------------------------- *)
Diagram ==
  {<<"disconnected", "connecting">>, <<"connecting", "connected">>,
   <<"connecting", "disconnected">>, <<"connected", "disconnecting">>,
   <<"connected", "disconnected">>, <<"connected", "reconnecting">>,
   <<"reconnecting", "connecting">>, <<"reconnecting", "disconnected">>,
   <<"disconnecting", "disconnected">>}

StateChanges == {i \in 1..Len(ev) : ev[i][1] = "state-change"}

(* C1: every change of the public state is a transition of the diagram,   *)
(* and each state-change event of a step carries a real change that links  *)
(* to the next, the last one ending at the current state.                  *)
C1_FollowsDiagram ==
  /\ \A i \in StateChanges :
       /\ <<ev[i][2], ev[i][3]>> \in Diagram
       /\ \A j \in StateChanges :
            (j > i /\ \A k \in StateChanges : ~(i < k /\ k < j)) => ev[j][2] = ev[i][3]
  /\ \A i \in StateChanges :
       (\A j \in StateChanges : j <= i) => ev[i][3] = state

(* C2: the connect() call that a reconnect cycle started by an unclean     *)
(* close makes in state reconnecting moves the state to connecting.        *)
C2_RetryConnects ==
  \A i \in 1..Len(ev) :
    (ev[i][1] = "connect-called" /\ ev[i][2] = "close" /\ ev[i][3] = "reconnecting")
      => /\ i < Len(ev)
         /\ ev[i + 1][1] = "state-change"
         /\ ev[i + 1][2] = "reconnecting"
         /\ ev[i + 1][3] = "connecting"

(* C3: once disconnect() was called, and until the consumer calls          *)
(* connect() again, the state is disconnected.                             *)
C3_SettlesAtDisconnected == settled => state = "disconnected"

(* C4: on a destroyed client connect() rejects, and disconnect() and       *)
(* send() do not return normally.                                          *)
C4_FailsFastAfterDestroy ==
  isDestroyed =>
    \A i \in 1..Len(ev) :
      /\ ev[i][1] # "disconnect-returned"
      /\ ev[i][1] # "send-returned"
      /\ (ev[i][1] = "connect-called" /\ ev[i][2] = "consumer")
           => \E j \in 1..Len(ev) : j > i /\ ev[j][1] = "connect-rejected"

(* C5: on a destroyed client no timer is armed: neither the ping interval, *)
(* nor the pong timeout, nor a reconnect delay, nor a connection timeout.  *)
C5_NoTimerAfterDestroy ==
  isDestroyed =>
    /\ ~pingInterval
    /\ ~pongTimeout
    /\ \A f \in FrameIds : ~(frames[f].k = "R" /\ frames[f].pc = "timer")
    /\ \A a \in AdapterIds : ~adapters[a].tmr

(* C6: when a connect() that awaited the opening of a socket completes,    *)
(* the queue is empty, what its flush handed to the adapter is in priority *)
(* order and in send order within a priority, and every message that       *)
(* send() queued while the client was not connected is on the wire exactly *)
(* once.                                                                   *)
C6_QueuedDelivered ==
  (cfg.queue /\ \E i \in 1..Len(ev) : ev[i][1] = "connect-succeeded" /\ ev[i][2] # 0)
    => /\ queue = <<>>
       /\ \A i, j \in 1..Len(flushed) :
            (i < j /\ flushed[i].d \in offline /\ flushed[j].d \in offline)
              => \/ PRIORITY_WEIGHTS[flushed[i].p] > PRIORITY_WEIGHTS[flushed[j].p]
                     \/ /\ flushed[i].p = flushed[j].p
                        /\ flushed[i].d < flushed[j].d
       /\ \A d \in offline : Cardinality({i \in 1..Len(wire) : wire[i].d = d}) = 1

(* A connect() completes after its socket opened and its flush handed two  *)
(* queued messages to the adapter, the later one of higher priority first. *)
C6_Witness ==
  /\ cfg.queue
  /\ \E i \in 1..Len(ev) : ev[i][1] = "connect-succeeded" /\ ev[i][2] # 0
  /\ queue = <<>>
  /\ Len(flushed) = 2
  /\ flushed[1].p = "high"
  /\ flushed[2].p = "low"
  /\ flushed[1].d > flushed[2].d
  /\ offline = {1, 2}

(* C7: two messages of the same priority are on the wire in the order in   *)
(* which they were passed to send() (payloads are numbered in that order). *)
C7_FifoWithinBand ==
  \A i, j \in 1..Len(wire) :
    (i < j /\ wire[i].p = wire[j].p) => wire[i].d < wire[j].d

(* C8: a message is handed to the adapter only when open has been emitted  *)
(* since connect() last began to connect.                                  *)
C8_NoSendBeforeOpen ==
  \A i \in 1..Len(ev) : ev[i][1] = "send" => ev[i][3]

(* C9: the delay announced for the k-th consecutive attempt is             *)
(* min(maxDelay, delay * factor^(k-1)).                                    *)
C9_DelayOfAttempt ==
  \A i \in 1..Len(ev) :
    ev[i][1] = "reconnecting"
      => ev[i][3] = Min(cfg.maxDelay, cfg.delay * Pow(cfg.factor, ev[i][2] - 1))

(* A cycle of the enabled manager has ended, nothing cut it, and every     *)
(* call of the connect function was rejected                               *)
CycleAllFailed ==
  /\ cfg.reconnect
  /\ cycle.res # "-"
  /\ ~cycle.cut
  /\ cycle.rej = cycle.n

CycleExhausted ==
  /\ cycle.n = cfg.maxAttempts
  /\ cycle.failed = 1
  /\ cycle.fa = cfg.maxAttempts
  /\ cycle.ok = 0
  /\ cycle.res = "false"

(* C10: a cycle in which the connect function always fails calls it       *)
(* maxAttempts times, reports failure once with that count, resolves       *)
(* false and never reports reconnected, whatever the attempt counter was   *)
(* when the cycle began.                                                   *)
C10_AnyCycleExhausts == CycleAllFailed => CycleExhausted

(* C10: a cycle that begins with the attempt counter at 0 and in which     *)
(* the connect function always fails calls it maxAttempts times, reports   *)
(* failure once with that count, resolves false and never reports          *)
(* reconnected.                                                            *)
C10_FreshCycleExhausts == (CycleAllFailed /\ cycle.start = 0) => CycleExhausted

(* A fresh cycle of MaxAttemptsBound attempts, all failed, has ended.       *)
C10_Witness ==
  /\ CycleAllFailed
  /\ cycle.start = 0
  /\ cfg.maxAttempts = MaxAttemptsBound
  /\ cycle.n = MaxAttemptsBound
  /\ cycle.res = "false"

(* C11: while the heartbeat runs against a peer that never answers, no     *)
(* probe stays unanswered for longer than the timeout without the timeout  *)
(* being detected, and a detected timeout starts at most one reconnect     *)
(* cycle.                                                                  *)
C11_DeadPeerDetected ==
  /\ cfg.interval < cfg.timeout => timers.probe <= cfg.timeout
  /\ (\E i \in 1..Len(ev) : ev[i][1] = "heartbeat-timeout") => Count(ev, "reconnecting") <= 1

(* The step is the expiry of the pong timeout on a connected client *)
TimeoutOnConnected ==
  /\ Len(ev) > 0
  /\ ev[1][1] = "heartbeat-timeout"
  /\ ev[1][2] = "connected"

(* C12: the expiry of the pong timeout on a connected client stops the     *)
(* heartbeat, closes the socket of the adapter and sets the state to       *)
(* disconnected and, with reconnect enabled, then to reconnecting with     *)
(* exactly one reconnecting event; the close event of that socket, when it *)
(* comes while the reconnect delay is pending, leaves the delay pending    *)
(* and emits no reconnecting event.                                        *)
C12_TimeoutReconnectsOnce ==
  /\ TimeoutOnConnected =>
       /\ ~pingInterval
       /\ ~pongTimeout
       /\ \A s \in SocketIds : sockets[s].rs # "OPEN"
       /\ \E i \in StateChanges : ev[i][2] = "connected" /\ ev[i][3] = "disconnected"
       /\ cfg.reconnect => /\ state = "reconnecting"
                           /\ Count(ev, "reconnecting") = 1
       /\ ~cfg.reconnect => state = "disconnected"
  /\ \A i \in 1..Len(ev) :
       (ev[i][1] = "close-event" /\ ev[i][2] /\ ev[i][3] # 0)
         => /\ reconnectTimer = ev[i][3]
            /\ frames[ev[i][3]].pc = "timer"
            /\ Count(ev, "reconnecting") = 0

(* The pong timeout expired on a connected client and one reconnect cycle  *)
(* began.                                                                  *)
C12_Witness ==
  /\ TimeoutOnConnected
  /\ cfg.reconnect
  /\ state = "reconnecting"
  /\ Count(ev, "reconnecting") = 1

(* C13: a probe is sent only when no earlier probe is still unanswered and *)
(* not timed out.                                                          *)
C13_OneProbeInFlight ==
  \A i \in 1..Len(ev) : ev[i][1] = "ping" => ~ev[i][2]

(* x was enqueued before y *)
EnqueuedBefore(x, y) ==
  \E i, j \in 1..Len(mq.seq) : i < j /\ mq.seq[i] = Key(x) /\ mq.seq[j] = Key(y)

(* x is of the highest band among itself and the items of q and, in that   *)
(* band, the one enqueued first                                            *)
HighestOldest(x, q) ==
  \A y \in Items(q) :
    /\ PRIORITY_WEIGHTS[y.p] <= PRIORITY_WEIGHTS[x.p]
    /\ y.p = x.p => EnqueuedBefore(x, y)

(* C14: the item that dequeue returns is of the highest band present and   *)
(* the first enqueued of that band.                                        *)
C14_DequeueHighestOldest ==
  \A i \in 1..Len(ev) : ev[i][1] = "dequeued" => HighestOldest(ev[i][2], ev[i][3])

(* dequeue returned a high item while another high item and a low item    *)
(* enqueued before it stay queued                                          *)
C14_Witness ==
  \E i \in 1..Len(ev) :
    /\ ev[i][1] = "dequeued"
    /\ ev[i][2].p = "high"
    /\ \E y \in Items(ev[i][3]) : y.p = "high"
    /\ \E y \in Items(ev[i][3]) : y.p = "low" /\ EnqueuedBefore(y, ev[i][2])

LowestOldest(x, q) ==
  \A y \in Items(q) :
    /\ PRIORITY_WEIGHTS[y.p] >= PRIORITY_WEIGHTS[x.p]
    /\ (y.p = x.p /\ y # x) => EnqueuedBefore(x, y)

(* C16: an enqueue on a queue of exactly maxSize items removes one item,   *)
(* the first enqueued of the lowest band that was queued.                  *)
C16_EvictsLowestOldest ==
  \A i \in 1..Len(ev) :
    (ev[i][1] = "enqueued" /\ Len(ev[i][4]) = cfg.maxSize)
      => \E x \in Items(ev[i][4]) : ev[i][3] = {x} /\ LowestOldest(x, ev[i][4])

(* What flush does apart from keeping the items it did not attempt: items  *)
(* go to sendFn one at a time in dequeue order; at a rejection the item is *)
(* enqueued again with its priority and one more retry, nothing more is    *)
(* sent, and the count returned is the number of completed sendFn calls.   *)
FlushProtocol ==
  /\ Count(ev, "sendFn") <= 1
  /\ \A i \in 1..Len(ev) :
       /\ ev[i][1] = "sendFn" => /\ HighestOldest(ev[i][2], ev[i][3])
                                 /\ mq.pc = "send"
                                 /\ mq.item = ev[i][2]
       /\ ev[i][1] = "flush-returned" => ev[i][2] = ev[i][3]
       /\ ev[i][1] = "flush-failed" =>
            /\ Count(ev, "sendFn") = 0
            /\ Count(ev, "flush-returned") = 1
            /\ \E j \in 1..Len(ev) :
                 /\ ev[j][1] = "enqueued"
                 /\ ev[j][2].d = ev[i][2].d
                 /\ ev[j][2].p = ev[i][2].p
                 /\ ev[j][2].r = ev[i][2].r + 1
                 /\ ev[j][2] \in Items(queue)

(* What the put-back of a failed flush removed from the queue *)
RemovedByPutBack ==
  UNION {ev[j][3] : j \in {k \in 1..Len(ev) : ev[k][1] = "enqueued" /\ Count(ev, "flush-failed") > 0}}

(* C17: flush hands the items to sendFn one at a time in dequeue order; at *)
(* the first rejection the item is put back with one more retry and its    *)
(* priority, nothing more is sent, the count of completed sends is         *)
(* returned, and every item not yet attempted stays queued.                *)
C17_FlushStopsAtFailure == FlushProtocol /\ RemovedByPutBack = {}

(* C17 with the proviso that the queue is not full when the item is put    *)
(* back: the items not yet attempted stay queued unless that enqueue finds *)
(* maxSize items queued, and then it removes exactly one.                  *)
C17_FlushStopsAtFailureBelowCapacity ==
  /\ FlushProtocol
  /\ \A j \in 1..Len(ev) :
       (ev[j][1] = "enqueued" /\ Count(ev, "flush-failed") > 0)
         => IF ev[j][5] THEN Cardinality(ev[j][3]) = 1 ELSE ev[j][3] = {}

(* A flush sent one item, failed on the second, put it back and returned 1 *)
(* while a third item stays queued                                         *)
C17_Witness ==
  /\ \E i \in 1..Len(ev) : ev[i][1] = "flush-failed" /\ ev[i][2].r = 0
  /\ \E i \in 1..Len(ev) : ev[i][1] = "flush-returned" /\ ev[i][2] = 1
  /\ Len(queue) = 2
  /\ RemovedByPutBack = {}

(* C18: a message that was never acknowledged or cancelled, whose sendFn   *)
(* was set and never threw, and whose retries are exhausted, was put on    *)
(* the wire max + 1 times, its onTimeout ran once and its entry is gone.   *)
C18_WireCarriesOriginalAndRetries ==
  \A id \in AckIds :
    (ack.msg[id].cb # <<>> /\ ack.msg[id].gone = <<>> /\ ~ack.msg[id].threw)
      => /\ ack.msg[id].sent = ack.msg[id].max + 1
         /\ ack.msg[id].cb = <<"timeout">>
         /\ ~ack.msg[id].live
         /\ ~ack.msg[id].armed

(* The retries of an unacknowledged message with two retries are exhausted *)
C18_Witness ==
  \E id \in AckIds :
    /\ ack.msg[id].cb = <<"timeout">>
    /\ ack.msg[id].gone = <<>>
    /\ ~ack.msg[id].threw
    /\ ack.msg[id].max = MaxRetries
    /\ ack.msg[id].retries = MaxRetries + 1

(* C19: for every message at most one callback was invoked, once; an entry *)
(* that handleAck, cancel or cancelAll removed has no timer, and no        *)
(* callback or resend came after the removal; handleAck for an id that is  *)
(* not pending returns false and changes nothing.                          *)
C19_OneCallbackAtMost ==
  /\ \A id \in AckIds :
       /\ Len(ack.msg[id].cb) <= 1
       /\ ack.msg[id].gone # <<>> =>
            /\ ~ack.msg[id].live
            /\ ~ack.msg[id].armed
            /\ ack.msg[id].gone = <<ack.msg[id].cb, ack.msg[id].sent>>
       /\ ~ack.msg[id].live => ~ack.msg[id].armed
  /\ \A i \in 1..Len(ev) :
       (ev[i][1] = "handleAck" /\ ~ev[i][3])
         => /\ ~ev[i][4]
            /\ \E j \in 1..Len(ev) : ev[j][1] = "ack-changed" /\ ~ev[j][2]

(* A message was sent again after a timeout and then acknowledged, and a   *)
(* second handleAck for it returned false                                  *)
C19_Witness ==
  \E id \in AckIds :
    /\ ack.msg[id].cb = <<"ack">>
    /\ ack.msg[id].sent > 0
    /\ \E i \in 1..Len(ev) : ev[i][1] = "handleAck" /\ ev[i][2] = id /\ ~ev[i][3]

(* C20: every completion of RpcManager.request has no call while its       *)
(* request is pending and exactly one call afterwards, the one of the      *)
(* operation that took the entry: resolve with the data of a response,     *)
(* reject for an error response, a timer expiry, cancel or cancelAll with  *)
(* the given reason; a request that is no longer pending has no timer, and *)
(* an operation on it returns false and changes nothing.                   *)
C20_SettledExactlyOnce ==
  /\ \A id \in RpcIds :
       /\ id > rpc.n => rpc.req[id] = NoRequest
       /\ id <= rpc.n =>
            /\ rpc.req[id].live => (rpc.req[id].calls = <<>> /\ rpc.req[id].armed)
            /\ ~rpc.req[id].live => (Len(rpc.req[id].calls) = 1 /\ ~rpc.req[id].armed)
  /\ \A i \in 1..Len(ev) :
       ev[i][1] = "rpc-op" =>
         IF ev[i][3]
           THEN rpc.req[ev[i][2]].calls = <<ev[i][5]>>
           ELSE /\ ~ev[i][4]
                /\ \E j \in 1..Len(ev) : ev[j][1] = "rpc-changed" /\ ~ev[j][2]

(* One request was resolved by a response and a later response for it was  *)
(* turned away, the other was rejected by its timer                        *)
C20_Witness ==
  /\ \E id \in RpcIds :
       /\ rpc.req[id].calls = <<<<"resolve", 2>>>>
       /\ \E i \in 1..Len(ev) : ev[i][1] = "rpc-op" /\ ev[i][2] = id /\ ~ev[i][3]
  /\ \E id \in RpcIds : rpc.req[id].calls = <<<<"reject", "timeout">>>>

(* C21: the timeout field of every TimeoutError of the AckManager is the   *)
(* options.timeout of the send, or the default when none was passed, and   *)
(* the timeout field of every TimeoutError of the RpcManager is the        *)
(* duration the timer of the request was armed with.                       *)
C21_TimeoutErrorCarriesDuration ==
  /\ \A id \in AckIds : \A i \in 1..Len(ack.msg[id].terr) :
       ack.msg[id].terr[i] = OrElse(ack.msg[id].timeout, AckDefaultTimeout)
  /\ \A id \in RpcIds : \A i \in 1..Len(rpc.req[id].terr) :
       rpc.req[id].terr[i] = rpc.req[id].timeoutMs

(* A request made with a timeout of its own was rejected by its timer *)
C21_Witness ==
  \E id \in RpcIds :
    /\ rpc.req[id].timeoutMs = 50
    /\ rpc.req[id].terr # <<>>

(* The consumer's send() of this step: the step's log ends with its entry  *)
SendOutcome == IF ev # <<>> /\ ev[Len(ev)][1] \in {"send-threw", "send-returned"}
               THEN ev[Len(ev)] ELSE <<"-", FALSE, 0, "-", "normal", TRUE, TRUE>>

(* C22: a send() on a connected client that threw emitted no error event   *)
(* and left its message out of the queue, and a send() on a connected      *)
(* client that returned emitted no error event.                            *)
C22_OneFailureSignal ==
  SendOutcome[2] =>
    /\ \A i \in 1..Len(ev) : ev[i][1] # "error"
    /\ SendOutcome[1] = "send-threw" =>
         \A k \in 1..Len(queue) : queue[k].d # SendOutcome[3]

(* A send() on a connected client threw after an error event, and its      *)
(* message is in the queue                                                 *)
C22_Witness ==
  /\ SendOutcome[1] = "send-threw"
  /\ SendOutcome[2]
  /\ \E i \in 1..Len(ev) : ev[i][1] = "error"
  /\ \E k \in 1..Len(queue) : queue[k].d = SendOutcome[3]

(* The send() of this step was made on a client that was neither destroyed *)
(* nor connected                                                           *)
SentWhileNotConnected ==
  SendOutcome[1] \in {"send-threw", "send-returned"} /\ ~SendOutcome[2] /\ ~isDestroyed

(* Such a send() enqueues its message with its priority and returns, or    *)
(* throws and leaves queue and state alone; either way nothing reaches the *)
(* adapter and no event is emitted.                                        *)
QueuedOrRefused ==
  SentWhileNotConnected =>
    /\ SendOutcome[6]
    /\ IF cfg.queue
         THEN /\ SendOutcome[1] = "send-returned"
              /\ \E k \in 1..Len(queue) :
                   queue[k].d = SendOutcome[3] /\ queue[k].p = SendOutcome[5]
         ELSE SendOutcome[1] = "send-threw" /\ SendOutcome[7]

(* C23: a send() on a client that is not destroyed and not connected       *)
(* enqueues the message with its priority when the queue is enabled, with  *)
(* nothing handed to the adapter and no error; when the queue is disabled  *)
(* it throws a StateError and changes nothing.                             *)
C23_QueuedOrStateError ==
  /\ QueuedOrRefused
  /\ (SentWhileNotConnected /\ ~cfg.queue) => SendOutcome[4] = "StateError"

(* A send() on a disconnected client without a queue threw *)
C23_Witness ==
  SentWhileNotConnected /\ ~cfg.queue /\ SendOutcome[1] = "send-threw"

(* C24: in both implementations the listener of every once registration   *)
(* was invoked at most once, and after its invocation its wrapper is no    *)
(* longer registered.                                                      *)
C24_OnceAtMostOnce ==
  \A w \in Wrappers :
    /\ em.inv[w] <= 1
    /\ em.inv[w] >= 1 => \A i \in 1..Len(Registered(em)) : Registered(em)[i] # w

(* A once listener was invoked by an emit *)
C24_Witness == \E w \in Wrappers : em.inv[w] >= 1

(* C25: in both implementations an emit invokes exactly the listeners that *)
(* were registered when it started, in the order of their registration.    *)
C25_EmitsToSnapshot ==
  \A i \in 1..Len(ev) : ev[i][1] = "emit" => ev[i][3] = ev[i][2]

(* An emit whose listeners changed the registrations while it ran *)
C25_Witness ==
  \E i \in 1..Len(ev) :
    /\ ev[i][1] = "emit"
    /\ Len(ev[i][2]) >= 2
    /\ Registered(em) # ev[i][2]

(* C26: in the implementation with setMaxListeners, since the threshold    *)
(* was last set there was one warning if the number of listeners went over *)
(* it and none otherwise, and none at all for a threshold of 0.            *)
C26_OneWarningPerThreshold ==
  em.impl = "part_013" =>
    /\ em.warnings = IF em.exceeded THEN 1 ELSE 0
    /\ em.max = 0 => em.warnings = 0

(* The number of listeners went over a threshold set by setMaxListeners *)
C26_Witness == em.impl = "part_013" /\ em.max # DEFAULT_MAX_LISTENERS /\ em.exceeded

(* C27: the handler of a route registered with once was invoked at most    *)
(* once; when it has run to its end, by return or by throw, the route is   *)
(* no longer registered; and the removal of a once route removed no route  *)
(* that was registered with on.                                            *)
C27_OnceRouteOnce ==
  /\ \A id \in rt.once :
       /\ rt.inv[id] <= 1
       /\ rt.fin[id] => id \notin RouteIdsOf(rt.routes)
  /\ \A i \in 1..Len(ev) : ev[i][1] = "once-removed" => ev[i][3] \subseteq rt.once

(* The handler of a once route has run *)
C27_Witness == \E id \in rt.once : rt.fin[id]

(* C28: a dispatch of a message whose channel is not subscribed invoked no *)
(* handler and returned false.                                             *)
C28_UnsubscribedChannelDropped ==
  \A i \in 1..Len(ev) :
    (ev[i][1] = "dispatch" /\ ev[i][2] # "none" /\ ~ev[i][3]) => ev[i][4] = "false"

(* A message on a channel that is not subscribed was dispatched while a    *)
(* route or the default handler was there to take it                       *)
C28_Witness ==
  /\ \E i \in 1..Len(ev) : ev[i][1] = "dispatch" /\ ev[i][2] # "none" /\ ~ev[i][3]
  /\ rt.routes # <<>> \/ rt.defaultHandler

(* C29: isDuplicate(m) called right after markProcessed(m) returned true,  *)
(* and isDuplicate(m) called when more than windowSize had passed since m  *)
(* and every message sharing a key with it were marked last returned       *)
(* false.                                                                  *)
C29_DuplicateWithinWindow ==
  \A i \in 1..Len(ev) :
    ev[i][1] = "isDuplicate" =>
      /\ ev[i][4] => ev[i][3]
      /\ ev[i][5] => ~ev[i][3]

(* isDuplicate was asked for a marked message after its window *)
C29_Witness ==
  \E i \in 1..Len(ev) : ev[i][1] = "isDuplicate" /\ ev[i][5]

(* C30: every added message is in the buffer or was handed to the send     *)
(* function, none was handed more than once, the messages were handed in   *)
(* the order of add, and no message waits to be handed when the buffer     *)
(* holds maxSize messages or maxBytes bytes or when more than maxWait has  *)
(* passed since the first of the waiting messages was added.               *)
C30_HandedOnceInTime ==
  /\ \A msg \in 1..bs.n :
       /\ bs.handed[msg] <= 1
       /\ bs.handed[msg] = 0 => \E i \in 1..Len(bs.buffer) : bs.buffer[i] = msg
  /\ \A i, j \in 1..Len(bs.out) : i < j => bs.out[i] < bs.out[j]
  /\ Waiting(bs) # {} =>
       /\ Len(bs.buffer) < BatchMaxSize
       /\ bs.bufferBytes < BatchMaxBytes
       /\ bs.age <= BatchMaxWait

(* A sendFn call threw and the sender went on *)
C30_Witness == bs.threw /\ bs.n = MaxBatchAdds

(* The places of the log where a middleware began (pre), returned (post),  *)
(* and where the final action ran                                          *)
LogAt(kind) == {j \in 1..Len(mw.run.log) : mw.run.log[j][1] = kind}

(* C31: in an executeSend or executeReceive call whose middlewares do not  *)
(* throw, the k-th middleware to begin is the k-th registered, a           *)
(* middleware returns only after every middleware that began after it has  *)
(* returned, the final action runs at most once, after every middleware    *)
(* registered by then began and before any of them returned, and exactly   *)
(* once if all middlewares pass; after context.shouldSkip became true no   *)
(* middleware begins and the final action does not run, and the call       *)
(* completes without error, every middleware that began having returned.   *)
C31_OnionAndSkip ==
  LET log == mw.run.log IN
  LogAt("throw") = {} =>
    /\ \A j \in LogAt("pre") : log[j][2] = Cardinality({k \in LogAt("pre") : k <= j})
    /\ \A j, k \in LogAt("post") : j < k => log[j][2] > log[k][2]
    /\ \A j \in LogAt("post") : \E k \in LogAt("pre") : k < j /\ log[k][2] = log[j][2]
    /\ Cardinality(LogAt("final")) <= 1
    /\ \A f \in LogAt("final") :
         /\ \A j \in LogAt("pre") : j < f
         /\ \A j \in LogAt("post") : f < j
         /\ Cardinality(LogAt("pre")) = log[f][2]
    /\ mw.run.skipAt >= 0 =>
         \A j \in 1..Len(log) : j > mw.run.skipAt => log[j][1] = "post"
    /\ mw.run.res # "error"
    /\ mw.run.res = "ok" =>
         /\ Cardinality(LogAt("post")) = Cardinality(LogAt("pre"))
         /\ (\A i \in 1..Len(mw.run.list) : mw.run.list[i] = "pass")
              => Cardinality(LogAt("final")) = 1

(* A call over three middlewares completed: the second set shouldSkip and  *)
(* awaited next(), the third never began.                                  *)
C31_Witness ==
  /\ mw.run.res = "ok"
  /\ mw.run.list = <<"pass", "skipNext", "pass">>
  /\ mw.run.log = <<<<"pre", 1>>, <<"pre", 2>>, <<"post", 2>>, <<"post", 1>>>>

(* A reconnect delay is pending: a timer that will call the connect        *)
(* function                                                                *)
DelayPending == \E f \in FrameIds : frames[f].k = "R" /\ frames[f].pc = "timer"

(* C32: a cancel() leaves the attempt counter as it was and no reconnect   *)
(* delay pending, and a step that takes the counter to 0 is a reset() or a *)
(* reconnect attempt that succeeded.                                       *)
C32_CancelKeepsCounter ==
  [][/\ Count(ev', "cancel-returned") > 0 => attempts' = attempts /\ ~DelayPending'
     /\ (attempts # 0 /\ attempts' = 0)
          => Count(ev', "reset-returned") + Count(ev', "reconnected") > 0]_vars

(* cancel() returned after it cleared the timer of a manager whose counter *)
(* is not 0                                                                *)
C32_Witness ==
  /\ Count(ev, "cancel-returned") > 0
  /\ cycle.cut
  /\ attempts > 0
  /\ reconnectTimer = 0
  /\ cycle.n = 0

(* The step is a close event of a socket whose adapter the client listens  *)
(* to                                                                      *)
CloseReported ==
  /\ Len(ev) > 0
  /\ ev[1][1] = "close-event"
  /\ Count(ev, "close") > 0

SocketIsOpen ==
  /\ adapter # 0
  /\ adapters[adapter].st = "connected"
  /\ adapters[adapter].ws # 0
  /\ sockets[adapters[adapter].ws].rs = "OPEN"

(* C34: in a step that emits reconnected the state is connected, the       *)
(* adapter holds an open socket, and reconnect-failed is not emitted.      *)
C34_ReconnectedMeansConnected ==
  Count(ev, "reconnected") > 0 =>
    /\ state = "connected"
    /\ SocketIsOpen
    /\ Count(ev, "reconnect-failed") = 0

(* reconnected was emitted by the timer callback of a cycle that an        *)
(* unclean close started                                                   *)
C34_Witness ==
  /\ Count(ev, "reconnected") > 0
  /\ \E i \in 1..Len(ev) : ev[i][1] = "connect-called" /\ ev[i][2] = "close"

(* C35: in a step in which a connect() call of the consumer resolves the   *)
(* state is connected at the end of the step.                              *)
C35_ResolvedMeansConnected ==
  Count(ev, "connect-resolved") > 0 => state = "connected"

(* A connect() of the consumer that awaited the opening of a socket        *)
(* resolved in state connected                                             *)
C35_Witness ==
  /\ Count(ev, "connect-resolved") > 0
  /\ \E i \in 1..Len(ev) : ev[i][1] = "connect-succeeded" /\ ev[i][2] # 0
  /\ state = "connected"

(* C36: whenever the state of the client is connected its adapter exists   *)
(* and the state of the adapter is connected.                              *)
C36_ConnectedHasOpenSocket ==
  state = "connected" => (adapter # 0 /\ adapters[adapter].st = "connected")

(* The client is connected over the second socket of its adapter *)
C36_Witness ==
  /\ state = "connected"
  /\ SocketIsOpen
  /\ adapters[adapter].ws = 2


(* ---------------------------------------------------------------------- *)
(* C37: every step emits as many public open events as it makes            *)
(* transitions of the client into connected: one open event for each       *)
(* successful opening of the transport, none without one.                  *)
(* ---------------------------------------------------------------------- *)
IntoConnected == {i \in StateChanges : ev[i][3] = "connected"}

C37_OneOpenPerOpening == Count(ev, "open") = Cardinality(IntoConnected)

C37_Witness ==
  /\ Count(ev, "open") = 1
  /\ Cardinality(IntoConnected) = 1
  /\ state = "connected"
  /\ SocketIsOpen


(* ---------------------------------------------------------------------- *)
(* C38: a message passed to send() is never in the queue and on the wire   *)
(* together more than once, and a message that send() queued is in the     *)
(* queue or on the wire exactly once until destroy() clears the queue      *)
(* (the queue of these clients never overflows).                           *)
(* ---------------------------------------------------------------------- *)
Copies(d) ==
  Cardinality({i \in 1..Len(queue) : queue[i].d = d})
    + Cardinality({i \in 1..Len(wire) : wire[i].d = d})

C38_Conservation ==
  \A d \in (-MaxSends..MaxSends) \ {PingMessage} :
    /\ Copies(d) <= 1
    /\ (d \in offline /\ ~isDestroyed) => Copies(d) = 1

(* a queued message left the queue through the flush and is on the wire    *)
(* once                                                                    *)
C38_Witness ==
  \E d \in offline :
    /\ Copies(d) = 1
    /\ \E i \in 1..Len(wire) : wire[i].d = d
    /\ \E i \in 1..Len(flushed) : flushed[i].d = d


(* ---------------------------------------------------------------------- *)
(* C39: the flush that connect() starts passes no item to send() more      *)
(* often than the queue held it when the flush began (an item queued       *)
(* while the flush was suspended: at most once), whatever happens to the   *)
(* state of the client between two items.                                  *)
(* ---------------------------------------------------------------------- *)
Occurrences(s, d) == Cardinality({i \in 1..Len(s) : s[i] = d})

C39_FlushBounded ==
  \A d \in (-MaxSends..MaxSends) \ {PingMessage} :
    \/ Occurrences(flushRun.tried, d) <= 1
    \/ Occurrences(flushRun.tried, d) <= Occurrences(flushRun.start, d)

(* a flush of two queued items ended after two turns with the queue empty  *)
C39_Witness ==
  /\ Count(ev, "connect-succeeded") > 0
  /\ Len(flushRun.start) = 2
  /\ Len(flushRun.tried) = 2
  /\ queue = <<>>
  /\ Len(wire) = 2


(* ---------------------------------------------------------------------- *)
(* C40: once cancel() has returned, a promise of reconnect() that is still *)
(* pending settles eventually, whether cancel() found a delay pending or   *)
(* the connect function in flight.                                         *)
(* ---------------------------------------------------------------------- *)
C40_CancelledSettles ==
  (Count(ev, "cancel-returned") > 0 /\ cycle.on) ~> ~cycle.on

(* cancel() was called while the connect function was in flight, and the   *)
(* promise of reconnect() has settled since                                *)
C40_Witness ==
  /\ cycle.cut
  /\ ~cycle.on
  /\ cycle.res # "-"
  /\ calls = 2
  /\ Count(ev, "reconnect-true") + Count(ev, "reconnect-false") > 0

====
